---------------------------- MODULE Spec2Model ----------------------------
(***************************************************************************)
(* Model of the deterministic whiteboard-text parser of sam-fit            *)
(* (src/src/services/workoutExtractorOCR.ts): line normalizer, grid        *)
(* builder, title parser, movement pass, score pass, type detector,        *)
(* description generator and confidence scorer.                            *)
(*                                                                         *)
(* Text is kept as TLA+ strings and processed character by character, so   *)
(* every regular expression of the source is computed, not assumed.        *)
(***************************************************************************)
EXTENDS Integers, Sequences, FiniteSets, TLC

(***************************************************************************)
(* Bounds of the model.                                                    *)
(***************************************************************************)
\* longest body (lines after the title) drawn from LinePool
MaxBody == 2
\* longest raw line over RawAlphabet fed to the normalizer alone
MaxRawLen == 5

(***************************************************************************)
(* JavaScript string primitives used by the source.                        *)
(***************************************************************************)
Ch(s, i) == SubSeq(s, i, i)

Digits == {"0", "1", "2", "3", "4", "5", "6", "7", "8", "9"}

UpperLetters == "ABCDEFGHIJKLMNOPQRSTUVWXYZ"

LowerLetters == "abcdefghijklmnopqrstuvwxyz"

IsDigit(c) == c \in Digits

IsUpper(c) == \E i \in 1..26 : Ch(UpperLetters, i) = c

IsLower(c) == \E i \in 1..26 : Ch(LowerLetters, i) = c

\* [a-zA-Z]
IsLetter(c) == IsUpper(c) \/ IsLower(c)

\* \s : the model's texts only hold the space and the tab
IsSpace(c) == c = " " \/ c = "\t"

DigitVal(c) == CHOOSE d \in 0..9 : ToString(d) = c

LowerCh(c) ==
    IF IsUpper(c)
    THEN Ch(LowerLetters, CHOOSE i \in 1..26 : Ch(UpperLetters, i) = c)
    ELSE c

RECURSIVE toLowerCase(_)
toLowerCase(s) ==
    IF s = "" THEN "" ELSE LowerCh(Ch(s, 1)) \o toLowerCase(Tail(s))

RECURSIVE trimStart(_)
trimStart(s) ==
    IF s # "" /\ IsSpace(Ch(s, 1)) THEN trimStart(Tail(s)) ELSE s

RECURSIVE trimEnd(_)
trimEnd(s) ==
    IF s # "" /\ IsSpace(Ch(s, Len(s)))
    THEN trimEnd(SubSeq(s, 1, Len(s) - 1))
    ELSE s

trim(s) == trimEnd(trimStart(s))

\* s.substring(i - 1): the text from position i (1-based) to the end
From(s, i) == SubSeq(s, i, Len(s))

\* the literal lit stands in s at position i
LitAt(s, i, lit) ==
    /\ i >= 1
    /\ i + Len(lit) - 1 <= Len(s)
    /\ SubSeq(s, i, i + Len(lit) - 1) = lit

startsWith(s, lit) == LitAt(s, 1, lit)

\* s.includes(lit)
includes(s, lit) == \E i \in 1..(Len(s) + 1) : LitAt(s, i, lit)

\* position after the longest run of \s starting at i
RECURSIVE SkipSpaces(_, _)
SkipSpaces(s, i) ==
    IF i <= Len(s) /\ IsSpace(Ch(s, i)) THEN SkipSpaces(s, i + 1) ELSE i

\* position after the longest run of \d starting at i (i itself when none)
RECURSIVE SkipDigits(_, _)
SkipDigits(s, i) ==
    IF i <= Len(s) /\ IsDigit(Ch(s, i)) THEN SkipDigits(s, i + 1) ELSE i

\* value of a string of digits
RECURSIVE DigitsValue(_)
DigitsValue(s) ==
    IF s = "" THEN 0
    ELSE 10 * DigitsValue(SubSeq(s, 1, Len(s) - 1)) + DigitVal(Ch(s, Len(s)))

\* s is \d+
AllDigits(s) == s # "" /\ \A i \in 1..Len(s) : IsDigit(Ch(s, i))

\* s.split(sep) for a one-character separator
RECURSIVE split(_, _)
split(s, sep) ==
    IF \E i \in 1..Len(s) : Ch(s, i) = sep
    THEN LET i == CHOOSE k \in 1..Len(s) :
                     Ch(s, k) = sep /\ \A j \in 1..(k - 1) : Ch(s, j) # sep
         IN  <<SubSeq(s, 1, i - 1)>> \o split(From(s, i + 1), sep)
    ELSE <<s>>

\* parts.join(sep)
RECURSIVE join(_, _)
join(parts, sep) ==
    IF parts = <<>> THEN ""
    ELSE IF Len(parts) = 1 THEN parts[1]
    ELSE parts[1] \o sep \o join(Tail(parts), sep)

\* parts.map(trim).filter(p => p.length > 0)
RECURSIVE TrimNonEmpty(_)
TrimNonEmpty(parts) ==
    IF parts = <<>> THEN <<>>
    ELSE IF trim(parts[1]) = ""
    THEN TrimNonEmpty(Tail(parts))
    ELSE <<trim(parts[1])>> \o TrimNonEmpty(Tail(parts))

\* NaN, the result of parseInt on a text that starts with no number
NaN == -1000000

\* parseInt(s, 10): leading white space, an optional sign, the leading digits
parseInt(s) ==
    LET t == trimStart(s)
        neg == startsWith(t, "-")
        u == IF startsWith(t, "-") \/ startsWith(t, "+") THEN Tail(t) ELSE t
        e == SkipDigits(u, 1)
    IN  IF e = 1 THEN NaN
        ELSE IF neg THEN 0 - DigitsValue(SubSeq(u, 1, e - 1))
        ELSE DigitsValue(SubSeq(u, 1, e - 1))

isNaN(n) == n = NaN

\* null / undefined where the source expects a number
Null == -2000000

(***************************************************************************)
(* Line normalizer: cleanGeminiPipeOutput.  A raw text is modelled as the  *)
(* sequence of its lines (rawText.split('\n')).                            *)
(***************************************************************************)
\* line.replace(/\s*\|\s*/g, '|')
RECURSIVE StripAroundPipes(_)
StripAroundPipes(s) ==
    IF s = "" THEN ""
    ELSE LET p == SkipSpaces(s, 1)
         IN  IF p <= Len(s) /\ Ch(s, p) = "|"
             THEN "|" \o StripAroundPipes(From(s, SkipSpaces(s, p + 1)))
             ELSE Ch(s, 1) \o StripAroundPipes(Tail(s))

\* line.replace(/\|+/g, '|')
RECURSIVE CollapsePipes(_)
CollapsePipes(s) ==
    IF s = "" THEN ""
    ELSE IF Ch(s, 1) = "|" /\ Len(s) >= 2 /\ Ch(s, 2) = "|"
    THEN CollapsePipes(Tail(s))
    ELSE Ch(s, 1) \o CollapsePipes(Tail(s))

\* line.replace(/^\|\s*/, '').replace(/\s*\|$/, '')
StripEdgePipes(s) ==
    LET a == IF startsWith(s, "|") THEN From(s, SkipSpaces(s, 2)) ELSE s
    IN  IF a # "" /\ Ch(a, Len(a)) = "|"
        THEN trimEnd(SubSeq(a, 1, Len(a) - 1))
        ELSE a

\* line.replace(/\s+/g, ' ')
RECURSIVE CollapseSpaces(_)
CollapseSpaces(s) ==
    IF s = "" THEN ""
    ELSE IF IsSpace(Ch(s, 1))
    THEN " " \o CollapseSpaces(From(s, SkipSpaces(s, 1)))
    ELSE Ch(s, 1) \o CollapseSpaces(Tail(s))

\* a normalizer that only puts " | " in the place of every pipe
cleanLineNaive(line) == trim(join(split(line, "|"), " | "))

\* the body of the map callback of cleanGeminiPipeOutput: one line
cleanLine(line) ==
    LET l1 == StripAroundPipes(line)
        l2 == CollapsePipes(l1)
        parts == TrimNonEmpty(split(l2, "|"))
        l3 == join(parts, " | ")
        l4 == StripEdgePipes(l3)
        l5 == CollapseSpaces(l4)
    IN  trim(l5)

cleanGeminiPipeOutput(rawLines) ==
    [i \in 1..Len(rawLines) |-> cleanLine(rawLines[i])]

\* lines.map(line => line.trim()).filter(line => line.length > 0)
NonBlankLines(lines) == TrimNonEmpty(lines)

(***************************************************************************)
(* Grid builder.                                                           *)
(***************************************************************************)
\* the null that parseLineToGrid returns instead of a GridLine (a GridLine it
\* returns is never empty)
NullGrid == <<>>

\* a grid builder that keeps the empty fields of a line, as the comment above
\* parseLineToGrid says ("30 | Double Unders |" gives a third, empty, field)
parseLineToGridKeepEmpty(line) ==
    LET trimmed == trim(line)
        parts == [k \in 1..Len(split(trimmed, "|")) |->
                      trim(split(trimmed, "|")[k])]
    IN  IF trimmed = "" THEN NullGrid ELSE parts

parseLineToGrid(line) ==
    LET trimmed == trim(line)
        parts == TrimNonEmpty(split(trimmed, "|"))
    IN  IF trimmed = "" THEN NullGrid
        ELSE IF Len(parts) = 0 THEN NullGrid
        ELSE parts

\* minCount is <<>> when the optional argument is left out, else <<n>>
validateGridColumns(line, expectedCount, minCount) ==
    IF minCount # <<>> THEN Len(line) >= minCount[1] ELSE Len(line) = expectedCount

getGridColumn(line, index) ==
    IF index < Len(line) THEN line[index + 1] ELSE ""

RECURSIVE buildGrid(_)
buildGrid(allLines) ==
    IF allLines = <<>> THEN <<>>
    ELSE LET g == parseLineToGrid(allLines[1])
         IN  IF g = NullGrid THEN buildGrid(Tail(allLines))
             ELSE <<g>> \o buildGrid(Tail(allLines))

getAllLines(lines) == TrimNonEmpty(lines)

(***************************************************************************)
(* utils/timeUtils (not among the sources; written from the               *)
(* specification: "MM:SS"/"MMSS" converts to total seconds).               *)
(***************************************************************************)
\* ^\d{1,2}:\d{2}$
IsColonTime(s) ==
    \E m \in 1..2 :
        /\ Len(s) = m + 3
        /\ AllDigits(SubSeq(s, 1, m))
        /\ Ch(s, m + 1) = ":"
        /\ AllDigits(SubSeq(s, m + 2, m + 3))

parseTimeToSeconds(timeStr) ==
    LET t == trim(timeStr)
    IN  IF IsColonTime(t)
        THEN DigitsValue(SubSeq(t, 1, Len(t) - 3)) * 60
                 + DigitsValue(SubSeq(t, Len(t) - 1, Len(t)))
        ELSE IF AllDigits(t) /\ Len(t) \in 3..4
        THEN DigitsValue(SubSeq(t, 1, Len(t) - 2)) * 60
                 + DigitsValue(SubSeq(t, Len(t) - 1, Len(t)))
        ELSE Null

formatSecondsToTime(seconds) ==
    LET m == seconds \div 60
        r == seconds % 60
    IN  ToString(m) \o ":" \o (IF r < 10 THEN "0" ELSE "") \o ToString(r)

(***************************************************************************)
(* utils/movementNormalizer (not among the sources; the specification      *)
(* only says it canonicalizes spelling and abbreviations): a table of      *)
(* abbreviations, every other name unchanged.                              *)
(***************************************************************************)
normalizeMovementName(name) ==
    LET l == toLowerCase(trim(name))
    IN  IF l = "du" THEN "Double Unders"
        ELSE IF l = "wb" THEN "Wall Balls"
        ELSE trim(name)

(***************************************************************************)
(* Regular expressions shared by the passes.                               *)
(***************************************************************************)
\* leftmost position of s at which P holds, 0 when there is none
FirstPos(s, P(_, _)) ==
    IF \E i \in 1..Len(s) : P(s, i)
    THEN CHOOSE i \in 1..Len(s) : P(s, i) /\ \A j \in 1..(i - 1) : ~P(s, j)
    ELSE 0

\* end (exclusive) of the match of \d{1,2}\/\d{1,2}\/\d{2,4} starting at i, 0
\* when there is none; greedy, as the engine takes it
DateEndAt(s, i) ==
    LET e1 == SkipDigits(s, i)
        a == IF e1 - i >= 2 THEN i + 2 ELSE e1
        e2 == SkipDigits(s, a + 1)
        b == IF e2 - (a + 1) >= 2 THEN a + 3 ELSE e2
        e3 == SkipDigits(s, b + 1)
    IN  IF /\ a > i
           /\ LitAt(s, a, "/")
           /\ b > a + 1
           /\ LitAt(s, b, "/")
           /\ e3 - (b + 1) >= 2
        THEN (IF e3 - (b + 1) >= 4 THEN b + 5 ELSE e3)
        ELSE 0

DateAt(s, i) == DateEndAt(s, i) # 0

\* s.match(/\d{1,2}\/\d{1,2}\/\d{2,4}/)
HasDate(s) == FirstPos(s, DateAt) # 0

\* s.replace(/\d{1,2}\/\d{1,2}\/\d{2,4}/, '')
RemoveFirstDate(s) ==
    LET i == FirstPos(s, DateAt)
    IN  IF i = 0 THEN s
        ELSE SubSeq(s, 1, i - 1) \o From(s, DateEndAt(s, i))

\* s.replace(/\d{1,2}\/\d{1,2}\/\d{2,4}/g, '')
RECURSIVE RemoveDates(_)
RemoveDates(s) ==
    LET i == FirstPos(s, DateAt)
    IN  IF i = 0 THEN s
        ELSE SubSeq(s, 1, i - 1) \o RemoveDates(From(s, DateEndAt(s, i)))

\* :?\d{2} at j
ColonTwoDigitsAt(s, j) ==
    \/ /\ LitAt(s, j, ":")
       /\ SkipDigits(s, j + 1) >= j + 3
    \/ SkipDigits(s, j) >= j + 2

\* (\d{1,2}):?(\d{2}) at i
TimeAt(s, i) ==
    /\ i <= Len(s)
    /\ IsDigit(Ch(s, i))
    /\ \/ /\ i + 1 <= Len(s)
          /\ IsDigit(Ch(s, i + 1))
          /\ ColonTwoDigitsAt(s, i + 2)
       \/ ColonTwoDigitsAt(s, i + 1)

\* s.match(/(\d{1,2}):?(\d{2})/)
HasTime(s) == FirstPos(s, TimeAt) # 0

\* ^(\d{1,2}):(\d{2})$
IsTimeOnly(s) == IsColonTime(s)

\* the keyword of /^(rest|repeat|then|and)\s*(.*)/i, "" when no match
DescriptiveKeyword(s) ==
    LET l == toLowerCase(s)
    IN  IF startsWith(l, "rest") THEN "rest"
        ELSE IF startsWith(l, "repeat") THEN "repeat"
        ELSE IF startsWith(l, "then") THEN "then"
        ELSE IF startsWith(l, "and") THEN "and"
        ELSE ""

\* firstColumn === '@' || trimmed.match(/^@\s*\|/)
IsAtLine(firstColumn, trimmed) ==
    \/ firstColumn = "@"
    \/ /\ startsWith(trimmed, "@")
       /\ LitAt(trimmed, SkipSpaces(trimmed, 2), "|")

(***************************************************************************)
(* Title parser.                                                           *)
(***************************************************************************)
\* title.replace(/£/g, 'E')
RECURSIVE FixPound(_)
FixPound(s) ==
    IF s = "" THEN ""
    ELSE (IF Ch(s, 1) = "£" THEN "E" ELSE Ch(s, 1)) \o FixPound(Tail(s))

\* titleLine.replace(/\|/g, ' ')
RECURSIVE PipesToSpaces(_)
PipesToSpaces(s) ==
    IF s = "" THEN ""
    ELSE (IF Ch(s, 1) = "|" THEN " " ELSE Ch(s, 1)) \o PipesToSpaces(Tail(s))

\* (?:min|minute|m) at j: the positions right after each alternative that
\* stands there (the engine backtracks through all of them)
MinUnitEnds(s, j) ==
    {j + Len(u) : u \in {u \in {"min", "minute", "m"} : LitAt(s, j, u)}}

\* (\d+)\s*(?:min|minute|m)\s*(?:cap|time\s*cap) at i
TimeCapAt(s, i) ==
    /\ IsDigit(Ch(s, i))
    /\ \E e \in MinUnitEnds(s, SkipSpaces(s, SkipDigits(s, i))) :
           LET k == SkipSpaces(s, e)
           IN  \/ LitAt(s, k, "cap")
               \/ /\ LitAt(s, k, "time")
                  /\ LitAt(s, SkipSpaces(s, k + 4), "cap")

\* E(\d+)MOM at i, on the lowered title
ENMomAt(s, i) ==
    /\ LitAt(s, i, "e")
    /\ SkipDigits(s, i + 1) > i + 1
    /\ LitAt(s, SkipDigits(s, i + 1), "mom")

\* (\d+)\s*(?:min|minute|m)\s*emom at i
MinEmomAt(s, i) ==
    /\ IsDigit(Ch(s, i))
    /\ \E e \in MinUnitEnds(s, SkipSpaces(s, SkipDigits(s, i))) :
           LitAt(s, SkipSpaces(s, e), "emom")

\* position after sets?\s*,?\s* at j, 0 when "set" does not stand at j
AfterSets(s, j) ==
    IF ~LitAt(s, j, "set") THEN 0
    ELSE LET a == IF LitAt(s, j + 3, "s") THEN j + 4 ELSE j + 3
             b == SkipSpaces(s, a)
             c == IF LitAt(s, b, ",") THEN b + 1 ELSE b
         IN  SkipSpaces(s, c)

\* (\d+)\s*sets?\s*,?\s*(\d+)\s*(?:rds?|rounds?) at i
SetsAt(s, i) ==
    /\ IsDigit(Ch(s, i))
    /\ LET n == AfterSets(s, SkipSpaces(s, SkipDigits(s, i)))
       IN  /\ n # 0
           /\ SkipDigits(s, n) > n
           /\ LET r == SkipSpaces(s, SkipDigits(s, n))
              IN  LitAt(s, r, "rd") \/ LitAt(s, r, "round")

\* the number (\d+) that starts at i
NumberAt(s, i) == DigitsValue(SubSeq(s, i, SkipDigits(s, i) - 1))

\* title.match(/^E\d+MOM$/i)
IsENMomCode(title) ==
    LET l == toLowerCase(title)
    IN  ENMomAt(l, 1) /\ SkipDigits(l, 2) + 3 = Len(l) + 1

\* title.match(/^(AMRAP|EMOM|CHIPPER)$/i)
IsBareCode(title) == toLowerCase(title) \in {"amrap", "emom", "chipper"}

\* the title text of parseTitle, before the metadata is read off it
CleanTitle(grid) ==
    LET titleLine == IF Len(grid) > 0 /\ join(grid[1], " ") # ""
                     THEN join(grid[1], " ")
                     ELSE "Workout"
        title == FixPound(trim(CollapseSpaces(PipesToSpaces(titleLine))))
    IN  IF title = "" \/ Len(title) < 2 THEN "Workout" ELSE title

parseTitle(grid) ==
    LET title == CleanTitle(grid)
        titleLower == toLowerCase(title)
        capPos == FirstPos(titleLower, TimeCapAt)
        enPos == FirstPos(titleLower, ENMomAt)
        minPos == FirstPos(titleLower, MinEmomAt)
        setsPos == FirstPos(titleLower, SetsAt)
    IN  [title |-> IF title # "" THEN title ELSE "Workout",
         timeCap |-> IF capPos # 0 THEN NumberAt(titleLower, capPos) * 60
                     ELSE Null,
         emomPeriod |-> IF enPos # 0 THEN NumberAt(titleLower, enPos + 1)
                        ELSE IF minPos # 0 THEN NumberAt(titleLower, minPos)
                        ELSE IF includes(titleLower, "emom") THEN 1
                        ELSE Null,
         setsInfo |-> IF setsPos # 0
                      THEN LET n == AfterSets(titleLower,
                                        SkipSpaces(titleLower,
                                            SkipDigits(titleLower, setsPos)))
                           IN  <<[sets |-> NumberAt(titleLower, setsPos),
                                  rounds |-> NumberAt(titleLower, n)]>>
                      ELSE <<>>]

(***************************************************************************)
(* Movement pass: parseMovements, one grid line at a time.                 *)
(***************************************************************************)
\* null where the source expects a string
NullStr == "<null>"

\* gridLine.filter(col => col && col.trim().length > 0).join(' ')
JoinedColumns(gridLine) == join(TrimNonEmpty(gridLine), " ")

\* firstColumn.match(/^(workout|score|rounds?|sets?|time|reps?)$/i)
IsMovementHeader(firstColumn) ==
    toLowerCase(firstColumn) \in
        {"workout", "score", "round", "rounds", "set", "sets", "time",
         "rep", "reps"}

\* \d+\s*\+\s*\d+ ending its first number at i
NumPlusNumAt(s, i) ==
    /\ IsDigit(Ch(s, i))
    /\ LET p == SkipSpaces(s, i + 1)
       IN  /\ LitAt(s, p, "+")
           /\ SkipDigits(s, SkipSpaces(s, p + 1)) > SkipSpaces(s, p + 1)

\* rounds?\s*\+\s*\d+\s*reps? at i, on the lowered text
RoundsPlusRepsAt(s, i) ==
    /\ LitAt(s, i, "round")
    /\ \E a \in {i + 5} \cup (IF LitAt(s, i + 5, "s") THEN {i + 6} ELSE {}) :
           LET b == SkipSpaces(s, a)
               c == SkipSpaces(s, b + 1)
           IN  /\ LitAt(s, b, "+")
               /\ SkipDigits(s, c) > c
               /\ LitAt(s, SkipSpaces(s, SkipDigits(s, c)), "rep")

\* the lines the movement pass leaves to the score pass
IsScoreShaped(gridLine, trimmed) ==
    \/ FirstPos(trimmed, NumPlusNumAt) # 0
    \/ /\ Len(gridLine) >= 3
       /\ getGridColumn(gridLine, 1) = "+"
       /\ ~isNaN(parseInt(getGridColumn(gridLine, 0)))
       /\ ~isNaN(parseInt(getGridColumn(gridLine, 2)))
    \/ HasDate(trimmed)
    \/ FirstPos(toLowerCase(trimmed), RoundsPlusRepsAt) # 0

\* start of (\d+):(\d+) when (?:rest\s+|\|\s*) stands at i, else 0
RestTimeStart(s, i) ==
    LET j == IF LitAt(s, i, "rest") /\ SkipSpaces(s, i + 4) > i + 4
             THEN SkipSpaces(s, i + 4)
             ELSE IF LitAt(s, i, "|") THEN SkipSpaces(s, i + 1)
             ELSE 0
    IN  IF /\ j # 0
           /\ SkipDigits(s, j) > j
           /\ LitAt(s, SkipDigits(s, j), ":")
           /\ SkipDigits(s, SkipDigits(s, j) + 1) > SkipDigits(s, j) + 1
        THEN j
        ELSE 0

RestTimeAt(s, i) == RestTimeStart(s, i) # 0

\* rest\s+1:1 at i
RestRatioAt(s, i) ==
    /\ LitAt(s, i, "rest")
    /\ SkipSpaces(s, i + 4) > i + 4
    /\ LitAt(s, SkipSpaces(s, i + 4), "1:1")

parseRestDuration(text) ==
    LET l == toLowerCase(text)
        i == FirstPos(l, RestTimeAt)
        j == RestTimeStart(l, i)
    IN  IF i # 0
        THEN NumberAt(l, j) * 60 + NumberAt(l, SkipDigits(l, j) + 1)
        ELSE IF FirstPos(l, RestRatioAt) # 0 THEN 60
        ELSE Null

\* the type of a descriptive element, from its keyword
DescriptiveType(keyword) ==
    IF keyword = "rest" THEN "rest"
    ELSE IF keyword = "repeat" THEN "repeat"
    ELSE IF keyword = "then" \/ keyword = "and" THEN "instruction"
    ELSE NullStr

\* duration || undefined
OrUndefined(duration) == IF duration = Null \/ duration = 0 THEN Null ELSE duration

Descriptive(text, type, duration) ==
    [type |-> "descriptive",
     descriptive |-> [text |-> text, type |-> type, duration |-> duration]]

Movement(amount, exercise, unit) ==
    [type |-> "movement",
     movement |-> [amount |-> amount, exercise |-> exercise, unit |-> unit]]

\* the duration of a rest line: d1 is parseRestDuration of the line; a line
\* of three columns or more is tried again on its time column
RestDuration(gridLine, d1) ==
    LET timeCol == IF getGridColumn(gridLine, 2) # ""
                   THEN getGridColumn(gridLine, 2)
                   ELSE getGridColumn(gridLine, 1)
    IN  IF (d1 = Null \/ d1 = 0) /\ Len(gridLine) >= 3 /\ timeCol # ""
        THEN parseRestDuration("rest " \o timeCol)
        ELSE d1

\* the rest/repeat/then/and branch of parseMovements
RestElement(gridLine, trimmed) ==
    Descriptive(JoinedColumns(gridLine),
                DescriptiveType(DescriptiveKeyword(trimmed)),
                OrUndefined(RestDuration(gridLine, parseRestDuration(trimmed))))

\* the "@" branch: the first (\d{1,2}):(\d{2}) of the line, if any
ColonTimeAt(s, i) ==
    /\ IsDigit(Ch(s, i))
    /\ \E m \in 1..2 :
           /\ SkipDigits(s, i) >= i + m
           /\ LitAt(s, i + m, ":")
           /\ SkipDigits(s, i + m + 1) >= i + m + 3

AtElement(trimmed) ==
    LET i == FirstPos(trimmed, ColonTimeAt)
        m == IF SkipDigits(trimmed, i) >= i + 2 /\ LitAt(trimmed, i + 2, ":")
             THEN 2 ELSE 1
    IN  Descriptive(trimmed, "instruction",
                    IF i = 0 THEN Null
                    ELSE DigitsValue(SubSeq(trimmed, i, i + m - 1)) * 60
                         + DigitsValue(SubSeq(trimmed, i + m + 1, i + m + 2)))

\* end (exclusive) of the longest \d+(?:-\d+)* at the start of s, 1 when none
RECURSIVE LadderEnd(_, _)
LadderEnd(s, i) ==
    LET e == SkipDigits(s, i)
    IN  IF e = i THEN i
        ELSE IF LitAt(s, e, "-") /\ SkipDigits(s, e + 1) > e + 1
        THEN LadderEnd(s, e + 1)
        ELSE e

\* end (exclusive) of \d+\s*x\s*d+ at the start of s (which covers \d+x\d+),
\* 1 when none; x is the set of letters accepted for "x"
SetsRepsEnd(s, x) ==
    LET e == SkipDigits(s, 1)
        a == SkipSpaces(s, e)
        b == SkipSpaces(s, a + 1)
    IN  IF e > 1 /\ a <= Len(s) /\ Ch(s, a) \in x /\ SkipDigits(s, b) > b
        THEN SkipDigits(s, b)
        ELSE 1

\* amount.match(/^(\d+(?:-\d+)*|(?:\d+x\d+)|(?:\d+\s*x\s*\d+))$/)
IsAmount(amount) ==
    /\ amount # ""
    /\ \/ LadderEnd(amount, 1) = Len(amount) + 1
       \/ SetsRepsEnd(amount, {"x"}) = Len(amount) + 1

\* end (exclusive) of the amount group of the legacy patterns when it is
\* followed by \s+, 1 when the patterns cannot match
LegacyAmountEnd(s) ==
    LET e1 == LadderEnd(s, 1)
        e3 == SetsRepsEnd(s, {"x", "X"})
    IN  IF e1 > 1 /\ e1 <= Len(s) /\ IsSpace(Ch(s, e1)) THEN e1
        ELSE IF e3 > 1 /\ e3 <= Len(s) /\ IsSpace(Ch(s, e3)) THEN e3
        ELSE 1

\* (\d+|lbs|kg|cal|m|ft|in|meters?|feet?) as a whole token, case-insensitive
IsUnitToken(t) ==
    \/ AllDigits(t)
    \/ toLowerCase(t) \in
           {"lbs", "kg", "cal", "m", "ft", "in", "meter", "meters", "fee", "feet"}

\* position of the last white space of s, 0 when it has none
LastSpace(s) ==
    IF \E i \in 1..Len(s) : IsSpace(Ch(s, i))
    THEN CHOOSE i \in 1..Len(s) :
             IsSpace(Ch(s, i)) /\ \A j \in (i + 1)..Len(s) : ~IsSpace(Ch(s, j))
    ELSE 0

\* the legacy patterns on an amount and the text after it: the unit, when
\* the last token is one, is peeled off the exercise
LegacyParts(amount, rest) ==
    LET k == LastSpace(rest)
        unitTok == From(rest, k + 1)
        exercise1 == trimEnd(SubSeq(rest, 1, k))
    IN  IF rest = "" THEN <<>>
        ELSE IF k # 0 /\ IsUnitToken(unitTok) /\ exercise1 # ""
        THEN <<Movement(trim(amount),
                        normalizeMovementName(trim(exercise1)),
                        trim(unitTok))>>
        ELSE <<Movement(trim(amount), normalizeMovementName(trim(rest)),
                        NullStr)>>

\* the legacy patterns 1 and 2, e being the end of the amount; <<>> when
\* neither pattern matches
LegacySplit(trimmed, e) ==
    IF e = 1 THEN <<>>
    ELSE LegacyParts(SubSeq(trimmed, 1, e - 1),
                     From(trimmed, SkipSpaces(trimmed, e)))

LegacyMovement(trimmed) == LegacySplit(trimmed, LegacyAmountEnd(trimmed))

\* the amount | exercise | unit branch; <<>> when the line is not of that form
GridMovement(gridLine) ==
    LET amount == getGridColumn(gridLine, 0)
        exercise == getGridColumn(gridLine, 1)
        unit == getGridColumn(gridLine, 2)
    IN  IF Len(gridLine) >= 2 /\ trim(exercise) # "" /\ IsAmount(amount)
           /\ ~includes(exercise, "|")
        THEN <<Movement(trim(amount), normalizeMovementName(exercise),
                        IF unit # "" THEN unit ELSE NullStr)>>
        ELSE <<>>

\* the first of two optional results that is there
OrElse(first, second) == IF first # <<>> THEN first ELSE second

\* a loop body in which a line the pass skips goes on to the later rules
MovementLineFallThrough(gridLine) ==
    IF Len(gridLine) = 0 THEN <<>>
    ELSE IF DescriptiveKeyword(JoinedColumns(gridLine)) # ""
    THEN <<RestElement(gridLine, JoinedColumns(gridLine))>>
    ELSE IF IsAtLine(getGridColumn(gridLine, 0), JoinedColumns(gridLine))
    THEN <<AtElement(JoinedColumns(gridLine))>>
    ELSE OrElse(GridMovement(gridLine),
                OrElse(LegacyMovement(JoinedColumns(gridLine)),
                       IF Len(JoinedColumns(gridLine)) > 3
                       THEN <<Movement("1",
                                       normalizeMovementName(
                                           JoinedColumns(gridLine)),
                                       NullStr)>>
                       ELSE <<>>))

\* the body of the loop of parseMovements: the elements (none or one) that
\* one grid line adds.  The second rest/repeat/then/and test of the legacy
\* part and the keyword test on a matched amount repeat tests that have
\* already failed on the same text, so they select nothing
MovementLine(gridLine) ==
    LET firstColumn == getGridColumn(gridLine, 0)
        trimmed == JoinedColumns(gridLine)
    IN  IF Len(gridLine) = 0 THEN <<>>
        ELSE IF IsMovementHeader(firstColumn) THEN <<>>
        ELSE IF IsScoreShaped(gridLine, trimmed) THEN <<>>
        ELSE IF DescriptiveKeyword(trimmed) # ""
        THEN <<RestElement(gridLine, trimmed)>>
        ELSE IF IsAtLine(firstColumn, trimmed) THEN <<AtElement(trimmed)>>
        ELSE IF Len(gridLine) = 1 /\ IsTimeOnly(firstColumn) THEN <<>>
        ELSE IF Len(gridLine) >= 2 /\ trim(getGridColumn(gridLine, 1)) = ""
        THEN <<>>
        ELSE OrElse(GridMovement(gridLine),
                    OrElse(LegacyMovement(trimmed),
                           IF Len(trimmed) > 3
                           THEN <<Movement("1", normalizeMovementName(trimmed),
                                           NullStr)>>
                           ELSE <<>>))

(***************************************************************************)
(* Score pass: parseScores, one grid line at a time.                       *)
(***************************************************************************)
\* trimmed.match(/^(score|results?|time|reps?|rounds?)\s*\|?$/i)
IsScoreHeader(trimmed) ==
    LET l == toLowerCase(trimmed)
    IN  \E w \in {"score", "result", "results", "time", "rep", "reps",
                  "round", "rounds"} :
            /\ startsWith(l, w)
            /\ LET j == SkipSpaces(l, Len(w) + 1)
               IN  \/ j = Len(l) + 1
                   \/ LitAt(l, j, "|") /\ j = Len(l)

\* col0.match(/^\d+[a-zA-Z]*$/)
IsNumberWithLetters(s) ==
    /\ SkipDigits(s, 1) > 1
    /\ \A i \in SkipDigits(s, 1)..Len(s) : IsLetter(Ch(s, i))

\* col1.match(/^\d{1,2}\/\d{1,2}\/\d{2,4}$/)
IsDateOnly(s) == s # "" /\ DateEndAt(s, 1) = Len(s) + 1

\* "amount | exercise" lines, which the score pass leaves to the movement pass
LooksLikeMovement(gridLine) ==
    LET col0 == getGridColumn(gridLine, 0)
        col1 == getGridColumn(gridLine, 1)
    IN  /\ Len(gridLine) >= 2
        /\ IsNumberWithLetters(col0)
        /\ col1 # ""
        /\ ~AllDigits(col1)
        /\ col1 # "+"
        /\ ~IsColonTime(col1)
        /\ ~IsDateOnly(col1)
        /\ Len(col1) > 1
        /\ toLowerCase(col1) \notin {"cal", "lbs", "kg", "min", "sec"}

\* the word (round|set) that starts the lowered text, "" when neither does
LabelWord(l) ==
    IF startsWith(l, "round") THEN "round"
    ELSE IF startsWith(l, "set") THEN "set"
    ELSE ""

\* /^(round|set)\s+(\d+):?\s*(.*)/i  ||  /^(round|set)\s*\|\s*(\d+)\s*\|\s*(.*)/i
\* [type, num, rest], or <<>> when the line carries no label
roundLabelMatch(trimmed) ==
    LET l == toLowerCase(trimmed)
        w == LabelWord(l)
        a == Len(w) + 1
        n1 == SkipSpaces(l, a)
        e1 == SkipDigits(l, n1)
        r1 == SkipSpaces(l, IF LitAt(l, e1, ":") THEN e1 + 1 ELSE e1)
        n2 == SkipSpaces(l, SkipSpaces(l, a) + 1)
        e2 == SkipDigits(l, n2)
        p2 == SkipSpaces(l, e2)
    IN  IF w = "" THEN <<>>
        ELSE IF n1 > a /\ e1 > n1
        THEN <<[type |-> w, num |-> SubSeq(trimmed, n1, e1 - 1),
                rest |-> From(trimmed, r1)]>>
        ELSE IF LitAt(l, SkipSpaces(l, a), "|") /\ e2 > n2 /\ LitAt(l, p2, "|")
        THEN <<[type |-> w, num |-> SubSeq(trimmed, n2, e2 - 1),
                rest |-> From(trimmed, SkipSpaces(l, p2 + 1))]>>
        ELSE <<>>

\* /^\d+[a-zA-Z]/.test(timeStr) || /[a-zA-Z]\d+$/.test(timeStr)
hasAttachedLetters(timeStr) ==
    \/ /\ SkipDigits(timeStr, 1) > 1
       /\ SkipDigits(timeStr, 1) <= Len(timeStr)
       /\ IsLetter(Ch(timeStr, SkipDigits(timeStr, 1)))
    \/ \E i \in 1..(Len(timeStr) - 1) :
           IsLetter(Ch(timeStr, i)) /\ AllDigits(From(timeStr, i + 1))

\* String(n) of a number
NumToString(n) == IF n = NaN THEN "NaN" ELSE ToString(n)

SetName(setIndex) == "Set " \o ToString(setIndex)

RoundName(n) == "Round " \o ToString(n)

Score(name, type, value, metadata) ==
    [name |-> name, type |-> type, value |-> value, metadata |-> metadata]

\* an outcome whose weight scores step roundIndex as the other scores do
OutcomeAllStepped(emit, roundIndex, setIndex, rule) ==
    [emit |-> emit,
     roundIndex |-> IF rule \in {"gridWeight", "proseWeight"}
                    THEN roundIndex + 1 ELSE roundIndex,
     setIndex |-> setIndex,
     rule |-> rule]

\* what one line of the score pass yields: the scores it pushes (none or
\* one), the counters after it and the rule that decided
Outcome(emit, roundIndex, setIndex, rule) ==
    [emit |-> emit, roundIndex |-> roundIndex, setIndex |-> setIndex,
     rule |-> rule]

\* position of the first digit of s, 0 when it has none
FirstDigit(s) ==
    IF \E i \in 1..Len(s) : IsDigit(Ch(s, i))
    THEN CHOOSE i \in 1..Len(s) :
             IsDigit(Ch(s, i)) /\ \A j \in 1..(i - 1) : ~IsDigit(Ch(s, j))
    ELSE 0

\* the name of a time score of the grid rule
GridTimeName(roundIndex, setIndex, nScoreGrids) ==
    LET isRoundBased == nScoreGrids > 2
    IN  IF setIndex > 0 THEN SetName(setIndex)
        ELSE IF roundIndex = 0 /\ ~isRoundBased THEN "Finish Time"
        ELSE RoundName(roundIndex + 1)

\* the name of a time score of the bare-number and prose rules
TimeName(roundIndex, setIndex) ==
    IF setIndex > 0 THEN SetName(setIndex)
    ELSE IF roundIndex = 0 THEN "Finish Time"
    ELSE RoundName(roundIndex)

\* the name of a reps score of the rounds+reps rules
RepsName(roundIndex, setIndex) ==
    IF setIndex > 0 THEN SetName(setIndex)
    ELSE IF roundIndex = 0 THEN "Total"
    ELSE RoundName(roundIndex)

\* a bare reps name that looks at the time cap before the set
BareRepsNameCapFirst(roundIndex, setIndex, timeCap) ==
    IF timeCap # Null THEN "Time Cap"
    ELSE IF setIndex > 0 THEN SetName(setIndex)
    ELSE IF roundIndex = 0 THEN "Total"
    ELSE RoundName(roundIndex)

\* the name of a reps score of the bare-number rule
BareRepsName(roundIndex, setIndex, timeCap) ==
    IF setIndex > 0 THEN SetName(setIndex)
    ELSE IF timeCap # Null THEN "Time Cap"
    ELSE IF roundIndex = 0 THEN "Total"
    ELSE RoundName(roundIndex)

TimeScore(name, timeInSeconds) ==
    Score(name, "time", formatSecondsToTime(timeInSeconds),
          [timeInSeconds |-> timeInSeconds])

\* the ways (\d{1,2}):?(\d{2}) can match at j, in the order the engine tries
\* them: [min, sec, end]
TimeOptions(s, j) ==
    LET opt(m, c) ==
            LET k == j + m + c
            IN  IF /\ SkipDigits(s, j) >= j + m
                   /\ (c = 1 => LitAt(s, j + m, ":"))
                   /\ SkipDigits(s, k) >= k + 2
                THEN <<[min |-> SubSeq(s, j, j + m - 1),
                        sec |-> SubSeq(s, k, k + 1),
                        end |-> k + 2]>>
                ELSE <<>>
    IN  opt(2, 1) \o opt(2, 0) \o opt(1, 1) \o opt(1, 0)

\* the options of TimeOptions after which \s*,\s*stop:\s* and a second time
\* follow: <<start, stop>> pairs in the engine's order
StartStopOptions(s, i) ==
    LET starts == TimeOptions(s, SkipSpaces(s, i + 6))
        stopAt(o) ==
            LET c == SkipSpaces(s, o.end)
                w == SkipSpaces(s, c + 1)
            IN  IF LitAt(s, c, ",") /\ LitAt(s, w, "stop:")
                THEN TimeOptions(s, SkipSpaces(s, w + 5))
                ELSE <<>>
        pair(k) == IF stopAt(starts[k]) # <<>>
                   THEN <<<<starts[k], stopAt(starts[k])[1]>>>>
                   ELSE <<>>
        RECURSIVE all(_)
        all(k) == IF k > Len(starts) THEN <<>> ELSE pair(k) \o all(k + 1)
    IN  IF LitAt(s, i, "start:") THEN all(1) ELSE <<>>

\* start:\s*(\d{1,2}):?(\d{2})\s*,\s*stop:\s*(\d{1,2}):?(\d{2}) at i, lowered
StartStopAt(s, i) == StartStopOptions(s, i) # <<>>

\* the metadata of a prose reps score
RepsMetadata(hasRound, firstNum, secondNum) ==
    IF hasRound
    THEN [rounds |-> firstNum,
          repsIntoNextRound |-> IF secondNum = Null THEN 0 ELSE secondNum,
          totalReps |-> firstNum + (IF secondNum = Null THEN 0 ELSE secondNum)]
    ELSE IF secondNum # Null
    THEN [rounds |-> firstNum, repsIntoNextRound |-> secondNum,
          totalReps |-> firstNum + secondNum]
    ELSE IF firstNum < 20
    THEN [rounds |-> firstNum, totalReps |-> firstNum]
    ELSE [totalReps |-> firstNum]

\* where the second (\d+) of the reps regex is tried when its first number
\* ends at e: after \s*(?:rounds?)?\s*(?:\+\s*)?
SecondNumStart(sl, e) ==
    LET a == SkipSpaces(sl, e)
        b == SkipSpaces(sl, IF LitAt(sl, a, "rounds") THEN a + 6
                            ELSE IF LitAt(sl, a, "round") THEN a + 5
                            ELSE a)
    IN  IF LitAt(sl, b, "+") THEN SkipSpaces(sl, b + 1) ELSE b

\* the number that starts at c, null when no digit stands there
NumberOrNull(s, c) == IF SkipDigits(s, c) > c THEN NumberAt(s, c) ELSE Null

\* the prose weight rule, /(\d+)\s*(lbs|kg)?/i, w being the first digit of
\* trimmed; rule "none" when the line is no score at all
ProseWeight(trimmed, w, roundIndex, setIndex) ==
    LET l == toLowerCase(trimmed)
        u == SkipSpaces(trimmed, SkipDigits(trimmed, w))
        unit == IF LitAt(l, u, "lbs") THEN SubSeq(trimmed, u, u + 2)
                ELSE IF LitAt(l, u, "kg") THEN SubSeq(trimmed, u, u + 1)
                ELSE "lbs"
    IN  IF w # 0 /\ NumberAt(trimmed, w) > 50
        THEN Outcome(<<Score(IF setIndex > 0 THEN SetName(setIndex) ELSE "Weight",
                             "weight", trimmed,
                             [weight |-> NumberAt(trimmed, w), unit |-> unit])>>,
                     roundIndex, setIndex, "proseWeight")
        ELSE Outcome(<<>>, roundIndex, setIndex, "none")

\* the prose reps rule, sl being the line without its first date, lowered,
\* and f its first digit; then the prose weight rule
ProseReps(trimmed, sl, f, roundIndex, setIndex) ==
    IF f # 0
    THEN Outcome(<<Score(RepsName(roundIndex, setIndex), "reps", trimmed,
                         RepsMetadata(
                             includes(toLowerCase(trimmed), "round"),
                             NumberAt(sl, f),
                             NumberOrNull(sl, SecondNumStart(
                                                  sl, SkipDigits(sl, f)))))>>,
                 roundIndex + 1, setIndex, "proseReps")
    ELSE ProseWeight(trimmed, FirstDigit(trimmed), roundIndex, setIndex)

\* the prose time rule, proseTime being parseTimeToSeconds(trimmed); then the
\* prose reps rule
ProseTime(trimmed, proseTime, roundIndex, setIndex) ==
    IF HasTime(trimmed) /\ proseTime # Null /\ proseTime < 3600
    THEN Outcome(<<TimeScore(TimeName(roundIndex, setIndex), proseTime)>>,
                 roundIndex + 1, setIndex, "proseTime")
    ELSE ProseReps(trimmed,
                   toLowerCase(IF HasDate(trimmed)
                               THEN trim(RemoveFirstDate(trimmed))
                               ELSE trimmed),
                   FirstDigit(toLowerCase(IF HasDate(trimmed)
                                          THEN trim(RemoveFirstDate(trimmed))
                                          ELSE trimmed)),
                   roundIndex, setIndex)

\* the score of a start/stop match, none when one of its times does not parse
StartStopScore(startTime, stopTime, startSeconds, stopSeconds, roundIndex) ==
    IF startSeconds # Null /\ stopSeconds # Null
    THEN <<Score(RoundName(IF roundIndex # 0 THEN roundIndex ELSE 1),
                 "time", formatSecondsToTime(stopSeconds - startSeconds),
                 [timeInSeconds |-> stopSeconds - startSeconds,
                  startTime |-> startTime,
                  stopTime |-> stopTime,
                  roundTime |-> stopSeconds - startSeconds])>>
    ELSE <<>>

\* the prose rules of parseScores, tried when the grid rules decided nothing:
\* start/stop, then time, reps and weight
ProseScore(trimmed, roundIndex, setIndex) ==
    LET l == toLowerCase(trimmed)
        ssPos == FirstPos(l, StartStopAt)
        ss == StartStopOptions(l, ssPos)[1]
        hit == IF ssPos = 0 THEN <<>>
               ELSE StartStopScore(
                        ss[1].min \o ":" \o ss[1].sec,
                        ss[2].min \o ":" \o ss[2].sec,
                        parseTimeToSeconds(ss[1].min \o ":" \o ss[1].sec),
                        parseTimeToSeconds(ss[2].min \o ":" \o ss[2].sec),
                        roundIndex)
    IN  IF hit # <<>>
        THEN Outcome(hit, roundIndex + 1, setIndex, "proseStartStop")
        ELSE ProseTime(trimmed, parseTimeToSeconds(trimmed), roundIndex,
                       setIndex)

\* the grid rules after the time rule: rounds + reps, a single number, a
\* weight; then the prose rules
GridCounts(workingGrid, trimmed, roundIndex, setIndex, timeCap) ==
    LET col0 == getGridColumn(workingGrid, 0)
        col1 == getGridColumn(workingGrid, 1)
        col2 == getGridColumn(workingGrid, 2)
        rounds == parseInt(col0)
        repsIntoNext == IF isNaN(parseInt(col2)) THEN 0 ELSE parseInt(col2)
        num == parseInt(col0)
        bareTime == parseTimeToSeconds(col0)
        w == FirstDigit(col0)
        weight == NumberAt(col0, w)
    IN  IF validateGridColumns(workingGrid, 3, <<3>>) /\ col1 = "+"
        THEN Outcome(<<Score(RepsName(roundIndex, setIndex), "reps",
                             NumToString(rounds) \o " + "
                                 \o NumToString(repsIntoNext),
                             [rounds |-> rounds,
                              repsIntoNextRound |-> repsIntoNext,
                              totalReps |-> IF isNaN(rounds) THEN NaN
                                            ELSE rounds + repsIntoNext])>>,
                     roundIndex + 1, setIndex, "gridReps")
        ELSE IF Len(workingGrid) = 1 /\ col0 # "" /\ ~isNaN(num)
        THEN IF bareTime # Null /\ bareTime < 3600 /\ num >= 60
             THEN Outcome(<<TimeScore(TimeName(roundIndex, setIndex), bareTime)>>,
                          roundIndex + 1, setIndex, "bareTime")
             ELSE Outcome(<<Score(BareRepsName(roundIndex, setIndex, timeCap),
                                  "reps", NumToString(num),
                                  [totalReps |-> num])>>,
                          roundIndex + 1, setIndex, "bareReps")
        ELSE IF validateGridColumns(workingGrid, 2, <<2>>) /\ w # 0 /\ weight > 50
        THEN Outcome(<<Score(IF setIndex > 0 THEN SetName(setIndex) ELSE "Weight",
                             "weight", trim(PipesToSpaces(trimmed)),
                             [weight |-> weight,
                              unit |-> IF col1 # "" THEN col1 ELSE "lbs"])>>,
                     roundIndex, setIndex, "gridWeight")
        ELSE ProseScore(trimmed, roundIndex, setIndex)

\* the grid time rule, timeStr being the first column without its dates;
\* then the other grid rules
GridTime(workingGrid, trimmed, timeStr, roundIndex, setIndex, nScoreGrids, timeCap) ==
    LET timeInSeconds == parseTimeToSeconds(timeStr)
    IN  IF /\ ~hasAttachedLetters(timeStr)
           /\ HasTime(timeStr)
           /\ timeInSeconds # Null
           /\ timeInSeconds < 3600
        THEN Outcome(<<TimeScore(GridTimeName(roundIndex, setIndex, nScoreGrids),
                                 timeInSeconds)>>,
                     roundIndex + 1, setIndex, "gridTime")
        ELSE GridCounts(workingGrid, trimmed, roundIndex, setIndex, timeCap)

\* the grid rules of parseScores on workingGrid, then the prose rules
GridScore(workingGrid, trimmed, roundIndex, setIndex, nScoreGrids, timeCap) ==
    GridTime(workingGrid, trimmed,
             trim(RemoveDates(getGridColumn(workingGrid, 0))),
             roundIndex, setIndex, nScoreGrids, timeCap)

\* label counters where a "Round N" label also leaves the current set
AfterLabelRoundLeavesSet(label, roundIndex, setIndex) ==
    IF label.type = "set"
    THEN [roundIndex |-> 0, setIndex |-> parseInt(label.num)]
    ELSE [roundIndex |-> parseInt(label.num), setIndex |-> 0]

\* a "Set N" label that leaves roundIndex as it was
AfterLabelNoReset(label, roundIndex, setIndex) ==
    IF label.type = "set"
    THEN [roundIndex |-> roundIndex, setIndex |-> parseInt(label.num)]
    ELSE [roundIndex |-> parseInt(label.num), setIndex |-> setIndex]

\* the counters after the round/set label of a line
AfterLabel(label, roundIndex, setIndex) ==
    IF label.type = "set"
    THEN [roundIndex |-> 0, setIndex |-> parseInt(label.num)]
    ELSE [roundIndex |-> parseInt(label.num), setIndex |-> setIndex]

\* the rules on a line whose label, if any, has been applied: the grid
\* rules when the working grid has a column, then the prose rules
ClassifyScore(workingGrid, trimmed, roundIndex, setIndex, nScoreGrids, timeCap) ==
    IF Len(workingGrid) > 0
    THEN GridScore(workingGrid, trimmed, roundIndex, setIndex, nScoreGrids,
                   timeCap)
    ELSE ProseScore(trimmed, roundIndex, setIndex)

\* a line past the skips, m being its round/set label match: the label sets
\* the counters and leaves the rest of the line as the working grid
LabelledScore(gridLine, trimmed, m, roundIndex, setIndex, nScoreGrids, timeCap) ==
    LET c == IF m = <<>>
             THEN [roundIndex |-> roundIndex, setIndex |-> setIndex]
             ELSE AfterLabel(m[1], roundIndex, setIndex)
        workingGrid == IF m = <<>> THEN gridLine
                       ELSE parseLineToGrid(trim(m[1].rest))
    IN  IF m # <<>> /\ (trim(m[1].rest) = "" \/ workingGrid = NullGrid)
        THEN Outcome(<<>>, c.roundIndex, c.setIndex, "labelOnly")
        ELSE ClassifyScore(workingGrid, trimmed, c.roundIndex, c.setIndex,
                           nScoreGrids, timeCap)

\* the body of the loop of parseScores on one grid line
ScoreLine(gridLine, roundIndex, setIndex, nScoreGrids, timeCap) ==
    LET trimmed == JoinedColumns(gridLine)
        firstColumn == getGridColumn(gridLine, 0)
    IN  IF Len(gridLine) = 0
        THEN Outcome(<<>>, roundIndex, setIndex, "skipEmpty")
        ELSE IF IsScoreHeader(trimmed)
        THEN Outcome(<<>>, roundIndex, setIndex, "skipHeader")
        ELSE IF DescriptiveKeyword(trimmed) # ""
        THEN Outcome(<<>>, roundIndex, setIndex, "skipDescriptive")
        ELSE IF IsAtLine(firstColumn, trimmed)
        THEN Outcome(<<>>, roundIndex, setIndex, "skipAt")
        ELSE IF LooksLikeMovement(gridLine)
        THEN Outcome(<<>>, roundIndex, setIndex, "skipMovement")
        ELSE LabelledScore(gridLine, trimmed, roundLabelMatch(trimmed),
                           roundIndex, setIndex, nScoreGrids, timeCap)

\* the post-pass of parseScores: a lone time score named "Round 1" is renamed
RenameLoneRound(scores) ==
    LET timeIdx == {i \in 1..Len(scores) : scores[i].type = "time"}
    IN  IF Cardinality(timeIdx) = 1
           /\ \A i \in timeIdx : scores[i].name = "Round 1"
        THEN [i \in 1..Len(scores) |->
                 IF i \in timeIdx
                 THEN [scores[i] EXCEPT !.name = "Finish Time"]
                 ELSE scores[i]]
        ELSE scores

(***************************************************************************)
(* Type detector, description generator, confidence scorer.                *)
(***************************************************************************)
\* a detector that looks at the scores before it looks at the title
detectWorkoutTypeScoresFirst(title, movements, scores) ==
    IF Len(scores) = 1 /\ scores[1].type = "time" THEN "For Time"
    ELSE IF includes(toLowerCase(title), "for time") THEN "For Time"
    ELSE IF includes(toLowerCase(title), "amrap") THEN "AMRAP"
    ELSE IF includes(toLowerCase(title), "emom") THEN "EMOM"
    ELSE IF includes(toLowerCase(title), "chipper") THEN "Chipper"
    ELSE IF includes(toLowerCase(title), "for reps") THEN "For Reps"
    ELSE "Unknown"

detectWorkoutType(title, movements, scores) ==
    LET titleLower == toLowerCase(title)
    IN  IF includes(titleLower, "amrap") THEN "AMRAP"
        ELSE IF FirstPos(titleLower, ENMomAt) # 0 THEN "EMOM"
        ELSE IF includes(titleLower, "emom") THEN "EMOM"
        ELSE IF includes(titleLower, "chipper") THEN "Chipper"
        ELSE IF includes(titleLower, "rounds for time") THEN "Rounds for Time"
        ELSE IF includes(titleLower, "for time") THEN "For Time"
        ELSE IF includes(titleLower, "for reps") THEN "For Reps"
        ELSE IF /\ Len(movements) = 1
                /\ movements[1].type = "movement"
                /\ movements[1].movement.amount # ""
                /\ includes(movements[1].movement.amount, "x")
        THEN "Lift"
        ELSE IF Len(scores) = 1 /\ scores[1].type = "time" THEN "For Time"
        ELSE IF Len(scores) = 1 /\ scores[1].type = "reps" THEN "For Reps"
        ELSE "Unknown"

\* s.replace(pat, rep) with a string pattern: the first occurrence only
ReplaceFirst(s, pat, rep) ==
    IF includes(s, pat)
    THEN LET i == CHOOSE k \in 1..Len(s) :
                     LitAt(s, k, pat) /\ \A j \in 1..(k - 1) : ~LitAt(s, j, pat)
         IN  SubSeq(s, 1, i - 1) \o rep \o From(s, i + Len(pat))
    ELSE s

\* templates[workoutType] || 'A {type} with {movement1} and {movement2}.'
Template(workoutType) ==
    CASE workoutType = "AMRAP" ->
             "A brutal AMRAP with {movement1} and {movement2}."
      [] workoutType = "EMOM" ->
             "An {type} with high output in {movement1} and {movement2}."
      [] workoutType = "Chipper" ->
             "A savage chipper that tested {movement1}, {movement2}, and {movement3}."
      [] workoutType = "Rounds for Time" ->
             "A fast-paced {type} with {movement1} and {movement2}."
      [] workoutType = "Lift" -> "Heavy {type} session with {movement1}."
      [] workoutType = "For Time" ->
             "A {type} that pushed the limits with {movement1} and {movement2}."
      [] workoutType = "For Reps" ->
             "A {type} that tested everything from {movement1} to {movement2}."
      [] OTHER -> "A {type} with {movement1} and {movement2}."

\* movements.filter(movement with an exercise).map(exercise).slice(0, n)
RECURSIVE MovementNames(_, _)
MovementNames(movements, n) ==
    IF movements = <<>> \/ n = 0 THEN <<>>
    ELSE IF movements[1].type = "movement"
            /\ movements[1].movement.exercise # ""
    THEN <<movements[1].movement.exercise>>
             \o MovementNames(Tail(movements), n - 1)
    ELSE MovementNames(Tail(movements), n)

generateDescription(workoutType, movements) ==
    LET names == MovementNames(movements, 3)
        nameOr(k) == IF k <= Len(names) THEN names[k] ELSE "movements"
    IN  IF Len(names) = 0 THEN "A " \o workoutType \o " workout."
        ELSE ReplaceFirst(
                 ReplaceFirst(
                     ReplaceFirst(
                         ReplaceFirst(Template(workoutType), "{type}", workoutType),
                         "{movement1}", nameOr(1)),
                     "{movement2}", nameOr(2)),
                 "{movement3}", nameOr(3))

\* confidences are kept in millionths: Unit stands for 1.0
Unit == 1000000

\* the confidence 0.95 given to every word
WordConfidence == 950000

\* lineText.split(/\s+/).length, for a trimmed non-empty line
RECURSIVE CountWords(_)
CountWords(line) ==
    IF line = "" THEN 0
    ELSE IF IsSpace(Ch(line, 1)) THEN CountWords(From(line, SkipSpaces(line, 1)))
    ELSE LET e == CHOOSE k \in 2..(Len(line) + 1) :
                      /\ k = Len(line) + 1 \/ IsSpace(Ch(line, k))
                      /\ \A j \in 2..(k - 1) : ~IsSpace(Ch(line, j))
         IN  1 + CountWords(From(line, e))

\* the words of an OCRData built from text lines: their number n, each with
\* confidence WordConfidence
RECURSIVE WordCount(_)
WordCount(textLines) ==
    IF textLines = <<>> THEN 0
    ELSE CountWords(textLines[1]) + WordCount(Tail(textLines))

\* a scorer that adds its three parts and leaves out their weights
calculateConfidenceUnweighted(nWords, elements, scores) ==
    LET avgConfidence == IF nWords > 0
                         THEN ((nWords * WordConfidence) \div nWords) \div 100
                         ELSE Unit \div 2
        parsingSuccess == IF Len(elements) > 0 \/ Len(scores) > 0
                          THEN (9 * Unit) \div 10
                          ELSE (5 * Unit) \div 10
        completeness == (3 * Unit) \div 10
                        + (IF Len(elements) > 0 THEN (4 * Unit) \div 10 ELSE 0)
                        + (IF Len(scores) > 0 THEN (3 * Unit) \div 10 ELSE 0)
    IN  avgConfidence + parsingSuccess + completeness

calculateConfidence(nWords, elements, scores) ==
    LET avgConfidence == IF nWords > 0
                         THEN ((nWords * WordConfidence) \div nWords) \div 100
                         ELSE Unit \div 2
        parsingSuccess == IF Len(elements) > 0 \/ Len(scores) > 0
                          THEN (9 * Unit) \div 10
                          ELSE (5 * Unit) \div 10
        hasMovements == Len(elements) > 0
        hasScores == Len(scores) > 0
        completeness == (3 * Unit) \div 10
                        + (IF hasMovements THEN (4 * Unit) \div 10 ELSE 0)
                        + (IF hasScores THEN (3 * Unit) \div 10 ELSE 0)
    IN  (avgConfidence * 4 + parsingSuccess * 3 + completeness * 3) \div 10

\* a final title that replaces a bare code by a generated title
FinalTitleGenerated(title, workoutType, movements) ==
    LET names == MovementNames(movements, 2)
    IN  IF IsENMomCode(title) \/ title = "Workout" \/ trim(title) = ""
        THEN IF Len(names) > 0
             THEN workoutType \o ": " \o join(names, " + ")
             ELSE workoutType \o " Workout"
        ELSE title

\* the title of the extraction: a bare E<N>MOM code is rewritten, the
\* fallback "Workout" is replaced by a generated title
FinalTitle(title, workoutType, movements) ==
    LET names == MovementNames(movements, 2)
    IN  IF IsENMomCode(title)
        THEN "E" \o SubSeq(title, 2, SkipDigits(title, 2) - 1) \o "MOM"
        ELSE IF title = "Workout" \/ trim(title) = ""
        THEN IF Len(names) > 0
             THEN workoutType \o ": " \o join(names, " + ")
             ELSE workoutType \o " Workout"
        ELSE title

\* the record parseWorkoutFromRawText returns
Extraction(textLines, title, movements, scores, workoutType) ==
    [title |-> FinalTitle(title, workoutType, movements),
     description |-> generateDescription(workoutType, movements),
     workout |-> movements,
     score |-> scores,
     confidence |-> calculateConfidence(WordCount(textLines), movements,
                                        scores),
     privacy |-> "public"]

\* parseMovements: the elements of the lines 2..k of the grid, in order
RECURSIVE MovementsUpTo(_, _)
MovementsUpTo(grid, k) ==
    IF k < 2 THEN <<>>
    ELSE MovementsUpTo(grid, k - 1) \o MovementLine(grid[k])

parseMovements(grid) == MovementsUpTo(grid, Len(grid))

\* the scores pushed so far, with the outcome o of one more line
AppendOutcome(emitted, o) ==
    Outcome(emitted \o o.emit, o.roundIndex, o.setIndex, o.rule)

\* one more iteration of the loop of parseScores, on line k of the grid
ScoreLoopStep(grid, k, timeCap, before) ==
    AppendOutcome(before.emit,
                  ScoreLine(grid[k], before.roundIndex, before.setIndex,
                            Len(grid) - 1, timeCap))

\* the loop of parseScores over the lines 2..k of the grid: the scores pushed
\* and the counters after line k, both counters starting at 0
RECURSIVE ScoreLoop(_, _, _)
ScoreLoop(grid, k, timeCap) ==
    IF k < 2 THEN Outcome(<<>>, 0, 0, "")
    ELSE ScoreLoopStep(grid, k, timeCap, ScoreLoop(grid, k - 1, timeCap))

parseScores(grid, timeCap) ==
    RenameLoneRound(ScoreLoop(grid, Len(grid), timeCap).emit)

\* parseWorkoutFromRawText from the sections on
ExtractionFrom(textLines, title, movements, scores) ==
    Extraction(textLines, title, movements, scores,
               detectWorkoutType(title, movements, scores))

\* parseWorkoutFromRawText from the grid on
ParsedGrid(textLines, grid, titleData) ==
    ExtractionFrom(textLines, titleData.title, parseMovements(grid),
                   parseScores(grid, titleData.timeCap))

\* parseWorkoutFromRawText from the text lines on
ParsedText(textLines, grid) == ParsedGrid(textLines, grid, parseTitle(grid))

\* parseWorkoutFromRawText as a function of its input lines alone
parseWorkoutFromRawText(rawLines) ==
    ParsedText(NonBlankLines(cleanGeminiPipeOutput(rawLines)),
               buildGrid(getAllLines(NonBlankLines(
                                         cleanGeminiPipeOutput(rawLines)))))

\* processExtractedText: the OCRData of a raw text; words is the number of
\* its words, each of which has the confidence WordConfidence
processExtractedText(rawLines) ==
    [lines |-> NonBlankLines(cleanGeminiPipeOutput(rawLines)),
     words |-> WordCount(NonBlankLines(cleanGeminiPipeOutput(rawLines)))]

\* parseFromOCRData from the workout type on
OCRTyped(ocrData, title, movements, scores, workoutType) ==
    [title |-> FinalTitle(title, workoutType, movements),
     description |-> generateDescription(workoutType, movements),
     workout |-> movements,
     score |-> scores,
     confidence |-> calculateConfidence(ocrData.words, movements, scores),
     privacy |-> "public"]

\* parseFromOCRData from the sections on
OCRParsed(ocrData, title, movements, scores) ==
    OCRTyped(ocrData, title, movements, scores,
             detectWorkoutType(title, movements, scores))

\* sections parsed with no time cap handed to parseScores
OCRSectionsNoTimeCap(ocrData, grid, titleData) ==
    OCRParsed(ocrData, titleData.title, parseMovements(grid),
              parseScores(grid, Null))

\* parseFromOCRData from the title data on
OCRSections(ocrData, grid, titleData) ==
    OCRParsed(ocrData, titleData.title, parseMovements(grid),
              parseScores(grid, titleData.timeCap))

\* parseFromOCRData from the grid on
OCRGrid(ocrData, grid) == OCRSections(ocrData, grid, parseTitle(grid))

parseFromOCRData(ocrData) ==
    OCRGrid(ocrData, buildGrid(getAllLines(ocrData.lines)))

(***************************************************************************)
(* parseWorkoutFromRawText as a state machine: one step per call of the    *)
(* pipeline and one step per grid line of each of the two passes.          *)
(***************************************************************************)
VARIABLES
    rawLines,    \* the raw text handed to parseWorkoutFromRawText, by line
    pc,          \* where the call stands
    textLines,   \* ocrData.lines
    grid,        \* buildGrid(allLines)
    titleData,   \* parseTitle(grid)
    i,           \* index in grid of the line the running pass handles next
    elements,    \* the elements array of parseMovements
    elemLine,    \* history: the grid index of the line each element came from
    scores,      \* the scores array of parseScores
    scoreLine,   \* history: the grid index of the line each score came from
    roundIndex,  \* parseScores' roundIndex
    setIndex,    \* parseScores' setIndex
    lastRule,    \* history: the rule that decided the last line of parseScores
    roundBefore, \* history: roundIndex before the last line of parseScores
    result,      \* the WorkoutExtraction returned, <<>> before the return
    cleaned,     \* cleanGeminiPipeOutput(rawLines), when it is run alone
    recleaned,   \* cleanGeminiPipeOutput(cleaned)
    calls,       \* the calls of several callers, when they run side by side
    workouts,    \* workoutStore: the workouts list, as workout ids
    isLoading,   \* workoutStore: isLoading
    error,       \* workoutStore: error
    cacheDB,     \* workoutCache: the ids in the 'workouts' object store
    driveFiles,  \* driveStorage: the ids of the workout files on Drive
    loadCall,    \* the running loadWorkouts and its background syncFromDrive
    saveCall,    \* the running saveWorkout
    deleteCall,  \* the running deleteWorkout
    history,     \* history: the ids saved with success, and those deleted
    apiPc,       \* where a text extraction stands
    modelIndex,  \* the index in modelNames of the model being tried
    retries,     \* the retries counter of the model being tried
    apiLog,      \* history: the API calls made, as <<model index, outcome>>
    apiResult    \* what the extraction returned or threw, <<>> before

\* the variables of the store and its two storages
storeVars == <<workouts, isLoading, error, cacheDB, driveFiles, loadCall,
               saveCall, deleteCall, history>>

\* the variables of a text extraction
apiVars == <<apiPc, modelIndex, retries, apiLog, apiResult>>

vars == <<rawLines, pc, textLines, grid, titleData, i, elements, elemLine,
          scores, scoreLine, roundIndex, setIndex, lastRule, roundBefore,
          result, cleaned, recleaned, calls, storeVars, apiVars>>

\* a call that is not running
IdleTask == [pc |-> "idle"]

\* the store as create() leaves it, with empty storages and no call running
StoreIdle ==
    /\ workouts = <<>>
    /\ isLoading = FALSE
    /\ error = NullStr
    /\ cacheDB = {}
    /\ driveFiles = {}
    /\ loadCall = IdleTask
    /\ saveCall = IdleTask
    /\ deleteCall = IdleTask
    /\ history = [made |-> 0, saved |-> {}, deleted |-> {}, loads |-> 0]

\* no text extraction has been asked for
ApiIdle ==
    /\ apiPc = "idle"
    /\ modelIndex = 0
    /\ retries = 0
    /\ apiLog = <<>>
    /\ apiResult = <<>>

\* the inputs of the scenarios of the specification
ScenarioA == <<"AMRAP 10 min", "30 | Double Unders", "Rest | 1:00", "8 + 25">>

ScenarioB == <<"5 Rounds", "10 Deadlifts", "Round 1: 2:15", "Round 2: 2:08">>

ScenarioC == <<"E5MOM", "10 | Burpees">>

ScenarioD == <<"8:00">>

ScenarioE == <<"315 | lbs">>

\* raw title lines: a plain title, a title with a time cap, a title too short
\* to keep, and a blank line (the next line, if any, is then the title)
TitlePool == {"AMRAP 10 min", "Fran | | 15 min cap", "X", " | "}

\* raw lines that follow the title
LinePool ==
    {"30 | Double Unders", "Rest | 1:00", "8 + 25", "10 Deadlifts",
     "Round 1: 2:15", "Round 2: 2:08", "8:00", "315 | lbs", "8 | + | 25 |",
     "Set 2", "12", "abc", "| |"}

\* the sequences over S of length at most n
RECURSIVE SeqsUpTo(_, _)
SeqsUpTo(S, n) ==
    IF n = 0 THEN {<<>>}
    ELSE LET shorter == SeqsUpTo(S, n - 1)
         IN  shorter \cup {Append(q, x) : q \in shorter, x \in S}

Inputs ==
    {<<>>, ScenarioA, ScenarioB, ScenarioC, ScenarioD, ScenarioE}
        \cup {<<t>> \o b : t \in TitlePool, b \in SeqsUpTo(LinePool, MaxBody)}

Init ==
    /\ rawLines \in Inputs
    /\ pc = "start"
    /\ textLines = <<>>
    /\ grid = <<>>
    /\ titleData = <<>>
    /\ i = 0
    /\ elements = <<>>
    /\ elemLine = <<>>
    /\ scores = <<>>
    /\ scoreLine = <<>>
    /\ roundIndex = 0
    /\ setIndex = 0
    /\ lastRule = ""
    /\ roundBefore = 0
    /\ result = <<>>
    /\ cleaned = <<>>
    /\ recleaned = <<>>
    /\ calls = <<>>
    /\ StoreIdle
    /\ ApiIdle

\* cleanGeminiPipeOutput, the text lines, getAllLines and buildGrid
BuildGrid ==
    /\ pc = "start"
    /\ textLines' = NonBlankLines(cleanGeminiPipeOutput(rawLines))
    /\ grid' = buildGrid(getAllLines(textLines'))
    /\ pc' = "title"
    /\ UNCHANGED <<rawLines, titleData, i, elements, elemLine, scores,
                   scoreLine, roundIndex, setIndex, lastRule, result,
                   cleaned, recleaned, roundBefore, calls, storeVars, apiVars>>

\* parseTitle, then the entry of parseMovements
ParseTitle ==
    /\ pc = "title"
    /\ titleData' = parseTitle(grid)
    /\ elements' = <<>>
    /\ elemLine' = <<>>
    /\ i' = 2
    /\ pc' = "movements"
    /\ UNCHANGED <<rawLines, textLines, grid, scores, scoreLine, roundIndex,
                   setIndex, lastRule, result,
                   cleaned, recleaned, roundBefore, calls, storeVars, apiVars>>

\* a loop condition that lets the pass go on only over a line a rule matches
MoreMatchedMovementLines ==
    /\ pc = "movements"
    /\ i <= Len(grid)
    /\ MovementLine(grid[i]) # <<>>

\* the condition of the loop of parseMovements: a grid line is left
MoreMovementLines == pc = "movements" /\ i <= Len(grid)

\* the loop of parseMovements is over
MovementsDone == pc = "movements" /\ i > Len(grid)

\* one iteration of the loop of parseMovements
MovementStep ==
    /\ MoreMovementLines
    /\ \E e \in {MovementLine(grid[i])} :
           /\ elements' = elements \o e
           /\ elemLine' = elemLine \o [k \in 1..Len(e) |-> i]
    /\ i' = i + 1
    /\ UNCHANGED <<rawLines, pc, textLines, grid, titleData, scores, scoreLine,
                   roundIndex, setIndex, lastRule, result,
                   cleaned, recleaned, roundBefore, calls, storeVars, apiVars>>

\* an entry of parseScores that hands it the whole grid, title line included
StartScoresFromTitle ==
    /\ MovementsDone
    /\ scores' = <<>>
    /\ scoreLine' = <<>>
    /\ roundIndex' = 0
    /\ setIndex' = 0
    /\ i' = 1
    /\ pc' = "scores"
    /\ UNCHANGED <<rawLines, textLines, grid, titleData, elements, elemLine,
                   lastRule, result,
                   cleaned, recleaned, roundBefore, calls, storeVars, apiVars>>

\* parseMovements returns; the entry of parseScores
StartScores ==
    /\ MovementsDone
    /\ scores' = <<>>
    /\ scoreLine' = <<>>
    /\ roundIndex' = 0
    /\ setIndex' = 0
    /\ i' = 2
    /\ pc' = "scores"
    /\ UNCHANGED <<rawLines, textLines, grid, titleData, elements, elemLine,
                   lastRule, result,
                   cleaned, recleaned, roundBefore, calls, storeVars, apiVars>>

\* the condition of the loop of parseScores: a grid line is left
MoreScoreLines == pc = "scores" /\ i <= Len(grid)

\* the loop of parseScores is over
ScoresDone == pc = "scores" /\ i > Len(grid)

\* one iteration of the loop of parseScores
ScoreStep ==
    /\ MoreScoreLines
    /\ \E o \in {ScoreLine(grid[i], roundIndex, setIndex, Len(grid) - 1,
                             titleData.timeCap)} :
           /\ scores' = scores \o o.emit
           /\ scoreLine' = scoreLine \o [k \in 1..Len(o.emit) |-> i]
           /\ roundIndex' = o.roundIndex
           /\ setIndex' = o.setIndex
           /\ lastRule' = o.rule
           /\ roundBefore' = roundIndex
    /\ i' = i + 1
    /\ UNCHANGED <<rawLines, pc, textLines, grid, titleData, elements,
                   elemLine, result,
                   cleaned, recleaned, calls, storeVars, apiVars>>

\* the post-pass of parseScores and its return
FinishScores ==
    /\ ScoresDone
    /\ scores' = RenameLoneRound(scores)
    /\ pc' = "finish"
    /\ UNCHANGED <<rawLines, textLines, grid, titleData, i, elements, elemLine,
                   scoreLine, roundIndex, setIndex, lastRule, result,
                   cleaned, recleaned, roundBefore, calls, storeVars, apiVars>>

\* detectWorkoutType, generateDescription, calculateConfidence, the final
\* title and the return of parseWorkoutFromRawText
Return ==
    /\ pc = "finish"
    /\ LET workoutType == detectWorkoutType(titleData.title, elements, scores)
       IN  result' = <<[title |-> FinalTitle(titleData.title, workoutType,
                                             elements),
                        description |-> generateDescription(workoutType,
                                                            elements),
                        workout |-> elements,
                        score |-> scores,
                        confidence |-> calculateConfidence(
                                           WordCount(textLines), elements,
                                           scores),
                        privacy |-> "public"]>>
    /\ pc' = "done"
    /\ UNCHANGED <<rawLines, textLines, grid, titleData, i, elements, elemLine,
                   scores, scoreLine, roundIndex, setIndex, lastRule,
                   cleaned, recleaned, roundBefore, calls, storeVars, apiVars>>

Next ==
    \/ BuildGrid
    \/ ParseTitle
    \/ MovementStep
    \/ StartScores
    \/ ScoreStep
    \/ FinishScores
    \/ Return

Spec == Init /\ [][Next]_vars

(***************************************************************************)
(* cleanGeminiPipeOutput alone, applied to one raw line and then to its    *)
(* own output.                                                             *)
(***************************************************************************)
\* the characters of a raw line: a letter, a space, a pipe and a tab
RawAlphabet == {"a", " ", "|", "\t"}

\* the strings over S of length at most n
RECURSIVE StringsUpTo(_, _)
StringsUpTo(S, n) ==
    IF n = 0 THEN {""}
    ELSE LET shorter == StringsUpTo(S, n - 1)
         IN  shorter \cup {q \o x : q \in shorter, x \in S}

InitNorm ==
    /\ rawLines \in {<<l>> : l \in StringsUpTo(RawAlphabet, MaxRawLen)}
    /\ pc = "raw"
    /\ textLines = <<>>
    /\ grid = <<>>
    /\ titleData = <<>>
    /\ i = 0
    /\ elements = <<>>
    /\ elemLine = <<>>
    /\ scores = <<>>
    /\ scoreLine = <<>>
    /\ roundIndex = 0
    /\ setIndex = 0
    /\ lastRule = ""
    /\ roundBefore = 0
    /\ result = <<>>
    /\ cleaned = <<>>
    /\ recleaned = <<>>
    /\ calls = <<>>
    /\ StoreIdle
    /\ ApiIdle

\* cleanGeminiPipeOutput on the raw line
Normalize ==
    /\ pc = "raw"
    /\ cleaned' = cleanGeminiPipeOutput(rawLines)
    /\ pc' = "cleaned"
    /\ UNCHANGED <<rawLines, textLines, grid, titleData, i, elements, elemLine,
                   scores, scoreLine, roundIndex, setIndex, lastRule,
                   roundBefore, result, recleaned, calls, storeVars, apiVars>>

\* cleanGeminiPipeOutput on its own output
Renormalize ==
    /\ pc = "cleaned"
    /\ recleaned' = cleanGeminiPipeOutput(cleaned)
    /\ pc' = "recleaned"
    /\ UNCHANGED <<rawLines, textLines, grid, titleData, i, elements, elemLine,
                   scores, scoreLine, roundIndex, setIndex, lastRule,
                   roundBefore, result, cleaned, calls, storeVars, apiVars>>

NextNorm ==
    \/ Normalize
    \/ Renormalize

SpecNorm == InitNorm /\ [][NextNorm]_vars

(***************************************************************************)
(* buildGrid alone, applied to the lines of a raw text.                    *)
(***************************************************************************)
\* the length of the raw text
MaxGridLen == 6

\* the characters of the raw text: a letter, a space, a pipe and a line break
GridAlphabet == {"a", " ", "|", "\n"}

InitGrid ==
    /\ rawLines \in {split(t, "\n") : t \in StringsUpTo(GridAlphabet, MaxGridLen)}
    /\ pc = "lines"
    /\ textLines = <<>>
    /\ grid = <<>>
    /\ titleData = <<>>
    /\ i = 0
    /\ elements = <<>>
    /\ elemLine = <<>>
    /\ scores = <<>>
    /\ scoreLine = <<>>
    /\ roundIndex = 0
    /\ setIndex = 0
    /\ lastRule = ""
    /\ roundBefore = 0
    /\ result = <<>>
    /\ cleaned = <<>>
    /\ recleaned = <<>>
    /\ calls = <<>>
    /\ StoreIdle
    /\ ApiIdle

\* buildGrid on the lines of the raw text
GridOnly ==
    /\ pc = "lines"
    /\ grid' = buildGrid(rawLines)
    /\ pc' = "grid"
    /\ UNCHANGED <<rawLines, textLines, titleData, i, elements, elemLine,
                   scores, scoreLine, roundIndex, setIndex, lastRule,
                   roundBefore, result, cleaned, recleaned, calls, storeVars, apiVars>>

NextGrid == GridOnly

SpecGrid == InitGrid /\ [][NextGrid]_vars

(***************************************************************************)
(* parseScores after the movement pass, over grids whose lines take every  *)
(* rule of the score pass.                                                 *)
(***************************************************************************)
\* raw title lines: one without a time cap and one with a time cap
ScoreTitlePool == {"X", "Fran | | 15 min cap"}

\* raw lines after the title: times, numbers, weights, rounds + reps with and
\* without a date column, labels alone and before a score, a header, a rest
\* line, a movement, a start/stop line, prose, a line no rule matches and
\* rounds + reps with a hundred rounds
ScorePool ==
    {"8:00", "12", "95 | lbs", "225 | lbs", "135 | kg", "8 | + | 25",
     "8 | + | 25 | 11/16/25", "Set 2", "Round 3", "Round 1: 2:15",
     "Set 1: 95 | lbs", "Time", "abc", "Rest | 1:00", "10 | Burpees",
     "Start: 0:00, Stop: 1:13", "Deadlift 315", "75 | x", "100 | + | 5"}

ScoreInputs ==
    {<<t>> \o b : t \in ScoreTitlePool, b \in SeqsUpTo(ScorePool, MaxBody)}

\* history: the grid index of the line each element of parseMovements came
\* from, over the lines 2..k
RECURSIVE MovementLinesUpTo(_, _)
MovementLinesUpTo(gridData, k) ==
    IF k < 2 THEN <<>>
    ELSE MovementLinesUpTo(gridData, k - 1)
             \o [n \in 1..Len(MovementLine(gridData[k])) |-> k]

\* the state of a call when parseMovements has run over the whole grid
InitScores ==
    /\ rawLines \in ScoreInputs
    /\ pc = "movements"
    /\ textLines = NonBlankLines(cleanGeminiPipeOutput(rawLines))
    /\ grid = buildGrid(getAllLines(textLines))
    /\ titleData = parseTitle(grid)
    /\ i = Len(grid) + 1
    /\ elements = parseMovements(grid)
    /\ elemLine = MovementLinesUpTo(grid, Len(grid))
    /\ scores = <<>>
    /\ scoreLine = <<>>
    /\ roundIndex = 0
    /\ setIndex = 0
    /\ lastRule = ""
    /\ roundBefore = 0
    /\ result = <<>>
    /\ cleaned = <<>>
    /\ recleaned = <<>>
    /\ calls = <<>>
    /\ StoreIdle
    /\ ApiIdle

NextScores ==
    \/ StartScores
    \/ ScoreStep
    \/ FinishScores

SpecScores == InitScores /\ [][NextScores]_vars

(***************************************************************************)
(* Several callers of parseWorkoutFromRawText side by side: each caller     *)
(* makes one call after another, and the steps of the calls of different   *)
(* callers interleave, line by line.                                       *)
(***************************************************************************)
\* the number of calls started, over all callers
MaxCalls == 3

Callers == {1, 2}

\* the inputs of the calls: labels, rounds, sets and a time cap
CallInputs ==
    {ScenarioB,
     <<"Fran | | 15 min cap", "Set 2", "12">>,
     <<"AMRAP 10 min", "8 | + | 25 |", "8:00">>}

\* the variables of the single call, which the callers leave alone
single == <<rawLines, pc, textLines, grid, titleData, i, elements, elemLine,
            scores, scoreLine, roundIndex, setIndex, lastRule, roundBefore,
            result, cleaned, recleaned>>

\* a caller that has not called yet.  A local of a call keeps the value the
\* caller's previous call left until the call declares it
IdleCall ==
    [input |-> <<>>, pc |-> "idle", textLines |-> <<>>, grid |-> <<>>,
     titleData |-> <<>>, i |-> 0, elements |-> <<>>, scores |-> <<>>,
     roundIndex |-> 0, setIndex |-> 0, result |-> <<>>, started |-> 0,
     overlapped |-> FALSE]

InitCalls ==
    /\ rawLines = <<>>
    /\ pc = "calls"
    /\ textLines = <<>>
    /\ grid = <<>>
    /\ titleData = <<>>
    /\ i = 0
    /\ elements = <<>>
    /\ elemLine = <<>>
    /\ scores = <<>>
    /\ scoreLine = <<>>
    /\ roundIndex = 0
    /\ setIndex = 0
    /\ lastRule = ""
    /\ roundBefore = 0
    /\ result = <<>>
    /\ cleaned = <<>>
    /\ recleaned = <<>>
    /\ calls = [c \in Callers |-> IdleCall]
    /\ StoreIdle
    /\ ApiIdle

\* a call of caller c is running
Running(c) == calls[c].pc \notin {"idle", "done"}

\* history: a step of the call of c is taken while another call is running
Overlap(c) == calls[c].overlapped \/ \E d \in Callers \ {c} : Running(d)

CallsStarted == calls[1].started + calls[2].started

\* counters shared by every call, as a variable of the module would be
OneCounterSet(c) == 1

\* the caller whose call holds the roundIndex and setIndex that the call of c
\* reads and writes: parseScores declares them with let, so its own
CountersOf(c) == c

\* caller c calls parseWorkoutFromRawText: cleanGeminiPipeOutput, the text
\* lines, getAllLines and buildGrid
CallEnter(c) ==
    /\ pc = "calls"
    /\ ~Running(c)
    /\ CallsStarted < MaxCalls
    /\ \E input \in CallInputs :
       \E t \in {NonBlankLines(cleanGeminiPipeOutput(input))} :
           calls' = [calls EXCEPT ![c].input = input,
                                  ![c].textLines = t,
                                  ![c].grid = buildGrid(getAllLines(t)),
                                  ![c].pc = "title",
                                  ![c].started = @ + 1,
                                  ![c].overlapped =
                                      \E d \in Callers \ {c} : Running(d)]
    /\ UNCHANGED <<single, storeVars, apiVars>>

\* parseTitle, then the entry of parseMovements
CallParseTitle(c) ==
    /\ pc = "calls"
    /\ calls[c].pc = "title"
    /\ calls' = [calls EXCEPT ![c].titleData = parseTitle(calls[c].grid),
                              ![c].elements = <<>>,
                              ![c].i = 2,
                              ![c].pc = "movements",
                              ![c].overlapped = Overlap(c)]
    /\ UNCHANGED <<single, storeVars, apiVars>>

\* one iteration of the loop of parseMovements
CallMovementStep(c) ==
    /\ pc = "calls"
    /\ calls[c].pc = "movements"
    /\ calls[c].i <= Len(calls[c].grid)
    /\ calls' = [calls EXCEPT
                     ![c].elements = @ \o MovementLine(calls[c].grid[calls[c].i]),
                     ![c].i = @ + 1,
                     ![c].overlapped = Overlap(c)]
    /\ UNCHANGED <<single, storeVars, apiVars>>

\* parseMovements returns; the entry of parseScores
CallStartScores(c) ==
    /\ pc = "calls"
    /\ calls[c].pc = "movements"
    /\ calls[c].i > Len(calls[c].grid)
    /\ calls' = [[calls EXCEPT ![c].scores = <<>>,
                               ![c].i = 2,
                               ![c].pc = "scores",
                               ![c].overlapped = Overlap(c)]
                    EXCEPT ![CountersOf(c)].roundIndex = 0,
                           ![CountersOf(c)].setIndex = 0]
    /\ UNCHANGED <<single, storeVars, apiVars>>

\* one iteration of the loop of parseScores
CallScoreStep(c) ==
    /\ pc = "calls"
    /\ calls[c].pc = "scores"
    /\ calls[c].i <= Len(calls[c].grid)
    /\ \E o \in {ScoreLine(calls[c].grid[calls[c].i],
                           calls[CountersOf(c)].roundIndex,
                           calls[CountersOf(c)].setIndex,
                           Len(calls[c].grid) - 1,
                           calls[c].titleData.timeCap)} :
           calls' = [[calls EXCEPT ![c].scores = @ \o o.emit,
                                   ![c].i = @ + 1,
                                   ![c].overlapped = Overlap(c)]
                        EXCEPT ![CountersOf(c)].roundIndex = o.roundIndex,
                               ![CountersOf(c)].setIndex = o.setIndex]
    /\ UNCHANGED <<single, storeVars, apiVars>>

\* the post-pass of parseScores and its return
CallFinishScores(c) ==
    /\ pc = "calls"
    /\ calls[c].pc = "scores"
    /\ calls[c].i > Len(calls[c].grid)
    /\ calls' = [calls EXCEPT ![c].scores = RenameLoneRound(@),
                              ![c].pc = "finish",
                              ![c].overlapped = Overlap(c)]
    /\ UNCHANGED <<single, storeVars, apiVars>>

\* detectWorkoutType, generateDescription, calculateConfidence, the final
\* title and the return of parseWorkoutFromRawText
CallReturn(c) ==
    /\ pc = "calls"
    /\ calls[c].pc = "finish"
    /\ calls' = [calls EXCEPT
                     ![c].result = <<ExtractionFrom(calls[c].textLines,
                                                    calls[c].titleData.title,
                                                    calls[c].elements,
                                                    calls[c].scores)>>,
                     ![c].pc = "done",
                     ![c].overlapped = Overlap(c)]
    /\ UNCHANGED <<single, storeVars, apiVars>>

NextCalls ==
    \/ \E c \in Callers : CallEnter(c)
    \/ \E c \in Callers : CallParseTitle(c)
    \/ \E c \in Callers : CallMovementStep(c)
    \/ \E c \in Callers : CallStartScores(c)
    \/ \E c \in Callers : CallScoreStep(c)
    \/ \E c \in Callers : CallFinishScores(c)
    \/ \E c \in Callers : CallReturn(c)

SpecCalls == InitCalls /\ [][NextCalls]_vars

(***************************************************************************)
(* parseMovements alone, over grids whose lines take every rule of the     *)
(* movement pass.                                                          *)
(***************************************************************************)
MaxMoveLines == 3

\* a raw title line the descriptive rule of the pass would match
MovementTitlePool == {"Rest Day"}

\* raw lines after the title: a header, number + number in three columns, a
\* date, rounds + reps wording, a bare time, a rest line, an
\* amount | exercise line, a legacy line, a bare exercise and a line no rule
\* matches
MovementPool ==
    {"Time", "8 | + | 25", "11/16/25", "3 rounds + 15 reps", "8:00",
     "Rest | 1:00", "10 | Burpees", "10 Deadlifts", "Burpees", "abc"}

MovementInputs ==
    {<<t>> \o b : t \in MovementTitlePool,
                  b \in SeqsUpTo(MovementPool, MaxMoveLines)}

\* the state of a call when buildGrid has returned
InitMovements ==
    /\ rawLines \in MovementInputs
    /\ pc = "title"
    /\ textLines = NonBlankLines(cleanGeminiPipeOutput(rawLines))
    /\ grid = buildGrid(getAllLines(textLines))
    /\ titleData = <<>>
    /\ i = 0
    /\ elements = <<>>
    /\ elemLine = <<>>
    /\ scores = <<>>
    /\ scoreLine = <<>>
    /\ roundIndex = 0
    /\ setIndex = 0
    /\ lastRule = ""
    /\ roundBefore = 0
    /\ result = <<>>
    /\ cleaned = <<>>
    /\ recleaned = <<>>
    /\ calls = <<>>
    /\ StoreIdle
    /\ ApiIdle

NextMovements ==
    \/ ParseTitle
    \/ MovementStep

SpecMovements == InitMovements /\ [][NextMovements]_vars

(***************************************************************************)
(* parseWorkoutFromRawText over texts whose lines begin with, or merely    *)
(* resemble, the words rest, repeat, then and and.                         *)
(***************************************************************************)
\* raw lines after the title: rest lines with a time in the second and in
\* the third column and in the same column, a rest ratio, a repeat line with
\* a time, then/and lines, a bare keyword, words that only begin with a
\* keyword, a movement and a bare time
DescriptivePool ==
    {"Rest | 1:00", "Rest 3:00", "Rest 1:1", "Rest | x | 2:00",
     "Repeat | 1:00", "repeat", "Then 5 Burpees", "AND | 10 | Situps",
     "Restart", "Andy | 5", "10 | Burpees", "8:00"}

DescriptiveInputs == {<<"X">> \o b : b \in SeqsUpTo(DescriptivePool, MaxBody)}

InitDescriptive ==
    /\ rawLines \in DescriptiveInputs
    /\ pc = "start"
    /\ textLines = <<>>
    /\ grid = <<>>
    /\ titleData = <<>>
    /\ i = 0
    /\ elements = <<>>
    /\ elemLine = <<>>
    /\ scores = <<>>
    /\ scoreLine = <<>>
    /\ roundIndex = 0
    /\ setIndex = 0
    /\ lastRule = ""
    /\ roundBefore = 0
    /\ result = <<>>
    /\ cleaned = <<>>
    /\ recleaned = <<>>
    /\ calls = <<>>
    /\ StoreIdle
    /\ ApiIdle

SpecDescriptive == InitDescriptive /\ [][Next]_vars

(***************************************************************************)
(* parseWorkoutFromRawText over texts whose titles hold the type keywords  *)
(* and whose lines give every mix of movements and scores that             *)
(* detectWorkoutType tells apart.                                          *)
(***************************************************************************)
\* raw title lines: one without a keyword (too short to keep), and titles
\* with one keyword or with two
TypeTitlePool ==
    {"X", "Grace", "AMRAP for time", "5 Rounds For Time", "Grace for time",
     "E5MOM", "Chipper emom", "Max for reps"}

\* raw lines after the title: a time, a weight under 100, a bare number, a
\* sets x reps movement, a rest line and a movement
TypePool ==
    {"8:00", "95 | lbs", "12", "5x5 | Squat", "Rest | 1:00", "10 | Burpees"}

TypeInputs ==
    {<<t>> \o b : t \in TypeTitlePool, b \in SeqsUpTo(TypePool, MaxBody)}

InitType ==
    /\ rawLines \in TypeInputs
    /\ pc = "start"
    /\ textLines = <<>>
    /\ grid = <<>>
    /\ titleData = <<>>
    /\ i = 0
    /\ elements = <<>>
    /\ elemLine = <<>>
    /\ scores = <<>>
    /\ scoreLine = <<>>
    /\ roundIndex = 0
    /\ setIndex = 0
    /\ lastRule = ""
    /\ roundBefore = 0
    /\ result = <<>>
    /\ cleaned = <<>>
    /\ recleaned = <<>>
    /\ calls = <<>>
    /\ StoreIdle
    /\ ApiIdle

SpecType == InitType /\ [][Next]_vars

(***************************************************************************)
(* parseScores after the movement pass, over grids whose lines take every  *)
(* rule that gives a time score.                                           *)
(***************************************************************************)
\* raw lines after the title: a time, four digits just under and at an
\* hour, start/stop lines that stop after and before they start, a round
\* label before a time and a bare number
TimePool ==
    {"8:00", "5959", "6000", "Start: 0:00, Stop: 1:13",
     "Start: 1:13, Stop: 0:00", "Round 1: 2:15", "12"}

TimeInputs == {<<"X">> \o b : b \in SeqsUpTo(TimePool, MaxBody)}

\* the state of a call when parseMovements has run over the whole grid
InitTimes ==
    /\ rawLines \in TimeInputs
    /\ pc = "movements"
    /\ textLines = NonBlankLines(cleanGeminiPipeOutput(rawLines))
    /\ grid = buildGrid(getAllLines(textLines))
    /\ titleData = parseTitle(grid)
    /\ i = Len(grid) + 1
    /\ elements = parseMovements(grid)
    /\ elemLine = MovementLinesUpTo(grid, Len(grid))
    /\ scores = <<>>
    /\ scoreLine = <<>>
    /\ roundIndex = 0
    /\ setIndex = 0
    /\ lastRule = ""
    /\ roundBefore = 0
    /\ result = <<>>
    /\ cleaned = <<>>
    /\ recleaned = <<>>
    /\ calls = <<>>
    /\ StoreIdle
    /\ ApiIdle

SpecTimes == InitTimes /\ [][NextScores]_vars

(***************************************************************************)
(* store/workoutStore.ts with services/workoutCache.ts and                 *)
(* services/driveStorage.ts: loadWorkouts, its background syncFromDrive,   *)
(* saveWorkout and deleteWorkout, running side by side.  A step is the     *)
(* code between two awaits: the awaited operation takes effect and the     *)
(* call runs on to its next await.                                         *)
(***************************************************************************)
MaxSaves == 2

MaxLoads == 1

\* the workouts saved before the page was opened
OldWorkouts == {0}

\* the parser is not in use
ParserIdle ==
    /\ rawLines = <<>>
    /\ pc = "none"
    /\ textLines = <<>>
    /\ grid = <<>>
    /\ titleData = <<>>
    /\ i = 0
    /\ elements = <<>>
    /\ elemLine = <<>>
    /\ scores = <<>>
    /\ scoreLine = <<>>
    /\ roundIndex = 0
    /\ setIndex = 0
    /\ lastRule = ""
    /\ roundBefore = 0
    /\ result = <<>>
    /\ cleaned = <<>>
    /\ recleaned = <<>>
    /\ calls = <<>>

\* workouts.sort by date, newest first: a workout saved later has the
\* greater id
RECURSIVE SortedDesc(_)
SortedDesc(ids) ==
    IF ids = {} THEN <<>>
    ELSE LET newest == CHOOSE w \in ids : \A v \in ids : v <= w
         IN  <<newest>> \o SortedDesc(ids \ {newest})

\* the ids of a list of workouts
Ids(list) == {list[k] : k \in 1..Len(list)}

\* state.workouts.filter((w) => w.id !== id)
RECURSIVE Without(_, _)
Without(list, id) ==
    IF list = <<>> THEN <<>>
    ELSE IF Head(list) = id THEN Without(Tail(list), id)
    ELSE <<Head(list)>> \o Without(Tail(list), id)

\* the page opens with the old workouts on Drive, and in the cache unless
\* the browser has emptied it
InitStore ==
    /\ ParserIdle
    /\ ApiIdle
    /\ workouts = <<>>
    /\ isLoading = FALSE
    /\ error = NullStr
    /\ cacheDB \in SUBSET OldWorkouts
    /\ driveFiles = OldWorkouts
    /\ loadCall = IdleTask
    /\ saveCall = IdleTask
    /\ deleteCall = IdleTask
    /\ history = [made |-> 0, saved |-> {}, deleted |-> {}, loads |-> 0]

\* loadWorkouts up to its await of workoutCache.loadWorkouts
LoadWorkouts ==
    /\ loadCall.pc = "idle"
    /\ history.loads < MaxLoads
    /\ isLoading' = TRUE
    /\ error' = NullStr
    /\ loadCall' = [pc |-> "cache"]
    /\ history' = [history EXCEPT !.loads = @ + 1]
    /\ UNCHANGED <<single, calls, apiVars, workouts, cacheDB, driveFiles,
                   saveCall, deleteCall>>

\* the cache is read: with workouts in it they are shown and syncFromDrive
\* is started and not awaited; with none Drive is read and awaited
CacheRead ==
    /\ loadCall.pc = "cache"
    /\ IF cacheDB # {}
       THEN /\ workouts' = SortedDesc(cacheDB)
            /\ isLoading' = FALSE
            /\ loadCall' = [pc |-> "sync"]
       ELSE /\ loadCall' = [pc |-> "drive"]
            /\ UNCHANGED <<workouts, isLoading>>
    /\ UNCHANGED <<single, calls, apiVars, error, cacheDB, driveFiles,
                   saveCall, deleteCall, history>>

\* loadWorkouts with an empty cache: driveStorage.loadWorkouts has resolved
DriveRead ==
    /\ loadCall.pc = "drive"
    /\ workouts' = SortedDesc(driveFiles)
    /\ isLoading' = FALSE
    /\ loadCall' = IF driveFiles = {} THEN IdleTask
                   ELSE [pc |-> "fill", todo |-> SortedDesc(driveFiles)]
    /\ UNCHANGED <<single, calls, apiVars, error, cacheDB, driveFiles,
                   saveCall, deleteCall, history>>

\* driveStorage.loadWorkouts has rejected, or a cache write of the loop has
DriveReadFails ==
    /\ loadCall.pc \in {"drive", "fill"}
    /\ error' = "Failed to load workouts"
    /\ isLoading' = FALSE
    /\ loadCall' = IdleTask
    /\ UNCHANGED <<single, calls, apiVars, workouts, cacheDB, driveFiles,
                   saveCall, deleteCall, history>>

\* one workoutCache.saveWorkout of the loop that updates the cache
CacheFill ==
    /\ loadCall.pc = "fill"
    /\ cacheDB' = cacheDB \cup {Head(loadCall.todo)}
    /\ loadCall' = IF Tail(loadCall.todo) = <<>> THEN IdleTask
                   ELSE [loadCall EXCEPT !.todo = Tail(@)]
    /\ UNCHANGED <<single, calls, apiVars, workouts, isLoading, error,
                   driveFiles, saveCall, deleteCall, history>>

\* syncFromDrive: driveStorage.loadWorkouts has resolved
SyncRead ==
    /\ loadCall.pc = "sync"
    /\ loadCall' = [pc |-> "clear", snapshot |-> SortedDesc(driveFiles)]
    /\ UNCHANGED <<single, calls, apiVars, workouts, isLoading, error,
                   cacheDB, driveFiles, saveCall, deleteCall, history>>

\* syncFromDrive: workoutCache.clearCache has resolved; with nothing read
\* from Drive the list is set at once
SyncClear ==
    /\ loadCall.pc = "clear"
    /\ cacheDB' = {}
    /\ IF loadCall.snapshot = <<>>
       THEN /\ workouts' = <<>>
            /\ loadCall' = IdleTask
       ELSE /\ loadCall' = [pc |-> "refill", snapshot |-> loadCall.snapshot,
                            todo |-> loadCall.snapshot]
            /\ UNCHANGED workouts
    /\ UNCHANGED <<single, calls, apiVars, isLoading, error, driveFiles,
                   saveCall, deleteCall, history>>

\* syncFromDrive: one workoutCache.saveWorkout of its loop; after the last
\* one the list is set to the workouts read from Drive
SyncRefill ==
    /\ loadCall.pc = "refill"
    /\ cacheDB' = cacheDB \cup {Head(loadCall.todo)}
    /\ IF Tail(loadCall.todo) = <<>>
       THEN /\ workouts' = loadCall.snapshot
            /\ loadCall' = IdleTask
       ELSE /\ loadCall' = [loadCall EXCEPT !.todo = Tail(@)]
            /\ UNCHANGED workouts
    /\ UNCHANGED <<single, calls, apiVars, isLoading, error, driveFiles,
                   saveCall, deleteCall, history>>

\* syncFromDrive: an await has rejected; the error is logged
SyncFails ==
    /\ loadCall.pc \in {"sync", "clear", "refill"}
    /\ loadCall' = IdleTask
    /\ UNCHANGED <<single, calls, apiVars, workouts, isLoading, error,
                   cacheDB, driveFiles, saveCall, deleteCall, history>>

\* a call of saveWorkout or deleteWorkout with its two writes started
BothPending(name, id) ==
    [pc |-> name, id |-> id, drive |-> "pending", cache |-> "pending"]

\* the other storage of the two
Other(storage) == IF storage = "drive" THEN "cache" ELSE "drive"

\* saveWorkout up to its await of Promise.all: the workout is made, with a
\* fresh id, and both writes are started
SaveWorkout ==
    /\ saveCall.pc = "idle"
    /\ history.made < MaxSaves
    /\ isLoading' = TRUE
    /\ error' = NullStr
    /\ saveCall' = BothPending("saving", history.made + 1)
    /\ history' = [history EXCEPT !.made = @ + 1]
    /\ UNCHANGED <<single, calls, apiVars, workouts, cacheDB, driveFiles,
                   loadCall, deleteCall>>

\* one write of saveWorkout has resolved; when both have, the workout is put
\* at the head of the list.  A write that resolves after the other one has
\* rejected still stores the workout
SaveStored(storage) ==
    /\ saveCall.pc \in {"saving", "rejected"}
    /\ saveCall[storage] = "pending"
    /\ IF storage = "drive"
       THEN /\ driveFiles' = driveFiles \cup {saveCall.id}
            /\ UNCHANGED cacheDB
       ELSE /\ cacheDB' = cacheDB \cup {saveCall.id}
            /\ UNCHANGED driveFiles
    /\ IF saveCall.pc = "saving" /\ saveCall[Other(storage)] = "done"
       THEN /\ workouts' = <<saveCall.id>> \o workouts
            /\ isLoading' = FALSE
            /\ history' = [history EXCEPT !.saved = @ \cup {saveCall.id}]
            /\ saveCall' = IdleTask
       ELSE /\ saveCall' = IF saveCall.pc = "rejected" THEN IdleTask
                           ELSE [saveCall EXCEPT ![storage] = "done"]
            /\ UNCHANGED <<workouts, isLoading, history>>
    /\ UNCHANGED <<single, calls, apiVars, error, loadCall, deleteCall>>

\* one write of saveWorkout has rejected: the first rejection sets the error
\* and is thrown again
SaveFails(storage) ==
    /\ saveCall.pc \in {"saving", "rejected"}
    /\ saveCall[storage] = "pending"
    /\ IF saveCall.pc = "saving"
       THEN /\ error' = "Failed to save workout"
            /\ isLoading' = FALSE
            /\ saveCall' = IF saveCall[Other(storage)] = "pending"
                           THEN [saveCall EXCEPT !.pc = "rejected",
                                                 ![storage] = "failed"]
                           ELSE IdleTask
       ELSE /\ saveCall' = IdleTask
            /\ UNCHANGED <<error, isLoading>>
    /\ UNCHANGED <<single, calls, apiVars, workouts, cacheDB, driveFiles,
                   loadCall, deleteCall, history>>

\* deleteWorkout, for a workout of the list, up to its await of Promise.all
DeleteWorkout(id) ==
    /\ deleteCall.pc = "idle"
    /\ id \in Ids(workouts)
    /\ id \notin history.deleted
    /\ isLoading' = TRUE
    /\ error' = NullStr
    /\ deleteCall' = BothPending("deleting", id)
    /\ history' = [history EXCEPT !.deleted = @ \cup {id}]
    /\ UNCHANGED <<single, calls, apiVars, workouts, cacheDB, driveFiles,
                   loadCall, saveCall>>

\* one delete of deleteWorkout has resolved; when both have, the workout is
\* filtered out of the list
DeleteRemoved(storage) ==
    /\ deleteCall.pc \in {"deleting", "rejected"}
    /\ deleteCall[storage] = "pending"
    /\ IF storage = "drive"
       THEN /\ driveFiles' = driveFiles \ {deleteCall.id}
            /\ UNCHANGED cacheDB
       ELSE /\ cacheDB' = cacheDB \ {deleteCall.id}
            /\ UNCHANGED driveFiles
    /\ IF deleteCall.pc = "deleting" /\ deleteCall[Other(storage)] = "done"
       THEN /\ workouts' = Without(workouts, deleteCall.id)
            /\ isLoading' = FALSE
            /\ deleteCall' = IdleTask
       ELSE /\ deleteCall' = IF deleteCall.pc = "rejected" THEN IdleTask
                             ELSE [deleteCall EXCEPT ![storage] = "done"]
            /\ UNCHANGED <<workouts, isLoading>>
    /\ UNCHANGED <<single, calls, apiVars, error, loadCall, saveCall,
                   history>>

\* one delete of deleteWorkout has rejected
DeleteFails(storage) ==
    /\ deleteCall.pc \in {"deleting", "rejected"}
    /\ deleteCall[storage] = "pending"
    /\ IF deleteCall.pc = "deleting"
       THEN /\ error' = "Failed to delete workout"
            /\ isLoading' = FALSE
            /\ deleteCall' = IF deleteCall[Other(storage)] = "pending"
                             THEN [deleteCall EXCEPT !.pc = "rejected",
                                                     ![storage] = "failed"]
                             ELSE IdleTask
       ELSE /\ deleteCall' = IdleTask
            /\ UNCHANGED <<error, isLoading>>
    /\ UNCHANGED <<single, calls, apiVars, workouts, cacheDB, driveFiles,
                   loadCall, saveCall, history>>

Storages == {"drive", "cache"}

NextStore ==
    \/ LoadWorkouts
    \/ CacheRead
    \/ DriveRead
    \/ DriveReadFails
    \/ CacheFill
    \/ SyncRead
    \/ SyncClear
    \/ SyncRefill
    \/ SyncFails
    \/ SaveWorkout
    \/ \E storage \in Storages : SaveStored(storage)
    \/ \E storage \in Storages : SaveFails(storage)
    \/ \E id \in OldWorkouts \cup 1..MaxSaves : DeleteWorkout(id)
    \/ \E storage \in Storages : DeleteRemoved(storage)
    \/ \E storage \in Storages : DeleteFails(storage)

SpecStore == InitStore /\ [][NextStore]_vars

(***************************************************************************)
(* extractTextWithGeminiAPI from its loop over modelNames on: each model   *)
(* is called, answers with a text or an error, and the two catch blocks    *)
(* decide between a retry, the next model and giving up.                   *)
(***************************************************************************)
\* the length of modelNames
MaxModels == 3

\* the messages of the errors a call is rejected with
GeminiErrors ==
    {"503 Service Unavailable", "The model is overloaded",
     "404 model is not found", "400 API key not valid"}

\* retryError?.message?.includes('503') || ...('overloaded') ||
\* ...('Service Unavailable')
is503Error(message) ==
    \/ includes(message, "503")
    \/ includes(message, "overloaded")
    \/ includes(message, "Service Unavailable")

\* an outer catch that takes every error for a missing model
isAnyError(message) == TRUE

\* error.message.includes('404') || error.message.includes('not found')
isNotFoundError(message) ==
    includes(message, "404") \/ includes(message, "not found")

InitGemini ==
    /\ ParserIdle
    /\ StoreIdle
    /\ ApiIdle

\* the loop over modelNames is entered: the first model is called, retries
\* at 3
GeminiStart ==
    /\ apiPc = "idle"
    /\ apiPc' = "call"
    /\ modelIndex' = 1
    /\ retries' = 3
    /\ UNCHANGED <<single, calls, storeVars, apiLog, apiResult>>

\* generateContent resolves with a text: both loops are left and
\* processExtractedText(rawText) is returned
GeminiSucceeds ==
    /\ apiPc = "call"
    /\ apiLog' = Append(apiLog, <<modelIndex, "ok">>)
    /\ apiPc' = "returned"
    /\ apiResult' = <<"text", modelIndex>>
    /\ UNCHANGED <<single, calls, storeVars, modelIndex, retries>>

\* generateContent resolves with an empty text: both loops are left with
\* rawText empty and the error of the end of the function is thrown
GeminiEmpty ==
    /\ apiPc = "call"
    /\ apiLog' = Append(apiLog, <<modelIndex, "empty">>)
    /\ apiPc' = "thrown"
    /\ apiResult' = <<"error", "No available Gemini model found">>
    /\ UNCHANGED <<single, calls, storeVars, modelIndex, retries>>

\* generateContent rejects.  The inner catch waits for a retry on a 503
\* with retries left and throws otherwise; the outer catch goes on to the
\* next model on a 404 or a 503 and throws any other error; after the last
\* model the error of the end of the function is thrown
GeminiRejects(message) ==
    /\ apiPc = "call"
    /\ apiLog' = Append(apiLog, <<modelIndex, message>>)
    /\ IF is503Error(message) /\ retries > 1
       THEN /\ apiPc' = "wait"
            /\ UNCHANGED <<modelIndex, retries, apiResult>>
       ELSE IF isNotFoundError(message) \/ is503Error(message)
       THEN IF modelIndex < MaxModels
            THEN /\ modelIndex' = modelIndex + 1
                 /\ retries' = 3
                 /\ apiPc' = "call"
                 /\ UNCHANGED apiResult
            ELSE /\ apiPc' = "thrown"
                 /\ apiResult' = <<"error", "No available Gemini model found">>
                 /\ UNCHANGED <<modelIndex, retries>>
       ELSE /\ apiPc' = "thrown"
            /\ apiResult' = <<"error", message>>
            /\ UNCHANGED <<modelIndex, retries>>
    /\ UNCHANGED <<single, calls, storeVars>>

\* the setTimeout of the inner catch has fired: retries--, and the same
\* model is called again
GeminiBackoff ==
    /\ apiPc = "wait"
    /\ retries' = retries - 1
    /\ apiPc' = "call"
    /\ UNCHANGED <<single, calls, storeVars, modelIndex, apiLog, apiResult>>

NextGemini ==
    \/ GeminiStart
    \/ GeminiSucceeds
    \/ GeminiEmpty
    \/ \E message \in GeminiErrors : GeminiRejects(message)
    \/ GeminiBackoff

\* the API answers every call and every timer fires
SpecGemini == InitGemini /\ [][NextGemini]_vars /\ WF_vars(NextGemini)

(***************************************************************************)
(* extractTextWithOpenAI: one model, called again from the catch block     *)
(* while retries are left.                                                 *)
(***************************************************************************)
\* the errors a call is rejected with: the status of the answer, where there
\* was one, and the message
OpenAIErrors ==
    {[status |-> 429, message |-> "Too many requests"],
     [status |-> Null, message |-> "rate_limit_exceeded"],
     [status |-> 500, message |-> "Internal error"],
     [status |-> Null, message |-> "The engine is overloaded"],
     [status |-> 401, message |-> "Incorrect API key"],
     [status |-> Null, message |-> "Connection error."]}

\* new Error('No text content in response')
NoTextError == [status |-> Null, message |-> "No text content in response"]

\* a catch block that takes every error for a rate limit
isAnyOpenAIError(e) == TRUE

\* message includes 'rate_limit' or '429', or the status is 429
isRateLimitError(e) ==
    \/ includes(e.message, "rate_limit")
    \/ includes(e.message, "429")
    \/ e.status = 429

\* message includes '500', '502', '503', 'overloaded' or 'Service
\* Unavailable', or the status is 500 or more
isServerError(e) ==
    \/ includes(e.message, "500")
    \/ includes(e.message, "502")
    \/ includes(e.message, "503")
    \/ includes(e.message, "overloaded")
    \/ includes(e.message, "Service Unavailable")
    \/ (e.status # Null /\ e.status >= 500)

InitOpenAI ==
    /\ ParserIdle
    /\ StoreIdle
    /\ ApiIdle

\* the retry loop is entered with retries at 3 and the model is called
OpenAIStart ==
    /\ apiPc = "idle"
    /\ apiPc' = "call"
    /\ retries' = 3
    /\ UNCHANGED <<single, calls, storeVars, modelIndex, apiLog, apiResult>>

\* the catch block: wait for a retry on a rate limit or a server error with
\* retries left, throw the error otherwise
OpenAICatch(e) ==
    /\ apiLog' = Append(apiLog, e)
    /\ IF (isRateLimitError(e) \/ isServerError(e)) /\ retries > 1
       THEN /\ apiPc' = "wait"
            /\ UNCHANGED apiResult
       ELSE /\ apiPc' = "thrown"
            /\ apiResult' = <<"error", e.message>>
    /\ UNCHANGED <<single, calls, storeVars, modelIndex, retries>>

\* the call resolves with a text: the loop is left and
\* processExtractedText(rawText) is returned
OpenAISucceeds ==
    /\ apiPc = "call"
    /\ apiLog' = Append(apiLog, [status |-> 200, message |-> "ok"])
    /\ apiPc' = "returned"
    /\ apiResult' = <<"text">>
    /\ UNCHANGED <<single, calls, storeVars, modelIndex, retries>>

\* the call resolves without a text: the error thrown in the try block is
\* caught by the same catch block
OpenAIEmpty ==
    /\ apiPc = "call"
    /\ OpenAICatch(NoTextError)

\* the call rejects
OpenAIRejects(e) ==
    /\ apiPc = "call"
    /\ OpenAICatch(e)

\* the setTimeout of the catch block has fired: retries--, and the model is
\* called again
OpenAIBackoff ==
    /\ apiPc = "wait"
    /\ retries' = retries - 1
    /\ apiPc' = "call"
    /\ UNCHANGED <<single, calls, storeVars, modelIndex, apiLog, apiResult>>

NextOpenAI ==
    \/ OpenAIStart
    \/ OpenAISucceeds
    \/ OpenAIEmpty
    \/ \E e \in OpenAIErrors : OpenAIRejects(e)
    \/ OpenAIBackoff

\* the API answers every call and every timer fires
SpecOpenAI == InitOpenAI /\ [][NextOpenAI]_vars /\ WF_vars(NextOpenAI)

(***************************************************************************)
(* The properties checked, claim by claim.                                 *)
(***************************************************************************)
\* the grid indices of the lines that gave an element, and a score
ElementLines == {elemLine[k] : k \in 1..Len(elemLine)}

ScoreLines == {scoreLine[k] : k \in 1..Len(scoreLine)}

\* the positions of the time scores of a score list
TimeScores(s) == {k \in 1..Len(s) : s[k].type = "time"}

\* C1: totality. Every call of parseWorkoutFromRawText runs to its return:
\* whatever the input lines, a call that has not returned is at a step whose
\* condition holds (each step, once its condition holds, assigns every
\* variable, so that it can be taken), both passes run over every line of the
\* grid, a line that no rule of the movement pass matches adds nothing, and
\* the value returned is a complete WorkoutExtraction (title, description,
\* workout list, score list, confidence, privacy "public") whose lists are
\* the ones the two passes built.
C1_Totality ==
    /\ \/ pc \in {"start", "title", "finish", "done"}
       \/ MoreMovementLines
       \/ MovementsDone
       \/ MoreScoreLines
       \/ ScoresDone
    /\ pc \in {"finish", "done"} =>
        /\ i > Len(grid)
        /\ ElementLines = {k \in 2..Len(grid) : MovementLine(grid[k]) # <<>>}
        /\ ScoreLines \subseteq 2..Len(grid)
    /\ pc = "done" =>
        /\ Len(result) = 1
        /\ DOMAIN result[1] = {"title", "description", "workout", "score",
                               "confidence", "privacy"}
        /\ result[1].privacy = "public"
        /\ result[1].workout = elements
        /\ result[1].score = scores
        /\ result[1].confidence \in Int
        /\ Len(result[1].title) >= 0
        /\ Len(result[1].description) >= 0

\* a call has returned on an input with a line that neither pass matched
C1_UnmatchedLineDropped ==
    /\ pc = "done"
    /\ \E k \in 2..Len(grid) : k \notin ElementLines /\ k \notin ScoreLines

\* C2: element/score partition, as claimed: no grid line gives both a
\* WorkoutElement in parseMovements and a ScoreElement in parseScores.
C2_Partition == ElementLines \cap ScoreLines = {}

\* C3: scenario B, as claimed: the lines "5 Rounds", "10 Deadlifts",
\* "Round 1: 2:15", "Round 2: 2:08" give two time scores, "Round 1" of 135
\* seconds and "Round 2" of 128 seconds.
C3_ScenarioB ==
    (rawLines = ScenarioB /\ pc = "done") =>
        LET t == SelectSeq(result[1].score, LAMBDA sc : sc.type = "time")
        IN  /\ Len(t) = 2
            /\ t[1].name = "Round 1" /\ t[1].metadata.timeInSeconds = 135
            /\ t[2].name = "Round 2" /\ t[2].metadata.timeInSeconds = 128

\* C4: scenario A, as claimed: the lines "AMRAP 10 min",
\* "30 | Double Unders", "Rest | 1:00", "8 + 25" give the title
\* "AMRAP 10 min", one movement (30, Double Unders), one rest of 60 seconds
\* and one reps score "Total" with rounds 8 and repsIntoNextRound 25.
C4_ScenarioA ==
    (rawLines = ScenarioA /\ pc = "done") =>
        LET r == result[1]
            mv == SelectSeq(r.workout, LAMBDA e : e.type = "movement")
            ds == SelectSeq(r.workout, LAMBDA e : e.type = "descriptive")
        IN  /\ r.title = "AMRAP 10 min"
            /\ Len(mv) = 1
            /\ mv[1].movement.amount = "30"
            /\ mv[1].movement.exercise = "Double Unders"
            /\ Len(ds) = 1
            /\ ds[1].descriptive.type = "rest"
            /\ ds[1].descriptive.duration = 60
            /\ Len(r.score) = 1
            /\ r.score[1].type = "reps"
            /\ r.score[1].name = "Total"
            /\ "rounds" \in DOMAIN r.score[1].metadata
            /\ "repsIntoNextRound" \in DOMAIN r.score[1].metadata
            /\ r.score[1].metadata.rounds = 8
            /\ r.score[1].metadata.repsIntoNextRound = 25

\* C5, as claimed: the single line "8:00" gives exactly one time score, named
\* "Finish Time", of 480 seconds.
C5_ScenarioD ==
    (rawLines = ScenarioD /\ pc = "done") =>
        /\ Len(result[1].score) = 1
        /\ result[1].score[1].type = "time"
        /\ result[1].score[1].name = "Finish Time"
        /\ result[1].score[1].metadata.timeInSeconds = 480

\* C5, amended: when the grid is a title line followed by the single line
\* "8:00", the call gives exactly one score, a time score named
\* "Finish Time" of 480 seconds; the single line "8:00" alone is the title
\* and gives no score.
C5_TimeAfterTitle ==
    /\ (pc = "done" /\ Len(grid) = 2 /\ grid[2] = <<"8:00">>) =>
        /\ Len(result[1].score) = 1
        /\ result[1].score[1].type = "time"
        /\ result[1].score[1].name = "Finish Time"
        /\ result[1].score[1].metadata.timeInSeconds = 480
    /\ (pc = "done" /\ rawLines = ScenarioD) =>
        /\ result[1].score = <<>>
        /\ result[1].title = "8:00"

\* a call has returned on a title line followed by the single line "8:00"
C5_TimeAfterTitleReached ==
    /\ pc = "done"
    /\ Len(grid) = 2
    /\ grid[2] = <<"8:00">>
    /\ Len(result[1].score) = 1

\* C6: scenario E, as claimed: the single line "315 | lbs" gives exactly one
\* score, a weight score with weight 315 and unit "lbs".
C6_ScenarioE ==
    (rawLines = ScenarioE /\ pc = "done") =>
        /\ Len(result[1].score) = 1
        /\ result[1].score[1].type = "weight"
        /\ result[1].score[1].metadata.weight = 315
        /\ result[1].score[1].metadata.unit = "lbs"

\* C7: round naming, as claimed: when parseScores returns a list with exactly
\* one time score, that score is named "Finish Time".
C7_LoneTimeIsFinishTime ==
    (pc \in {"finish", "done"} /\ Cardinality(TimeScores(scores)) = 1) =>
        \A k \in TimeScores(scores) : scores[k].name = "Finish Time"

\* the label, if any, of the line parseScores handled last
LastLabel == roundLabelMatch(JoinedColumns(grid[i - 1]))

\* parseScores has handled at least one line and has not returned
ScoredALine == pc = "scores" /\ i > 2

\* C8: counter monotonicity, as claimed: roundIndex and setIndex are never
\* negative, and a line of parseScores lowers roundIndex only when it
\* carries a "Set N" label, which resets it to 0.
C8_Monotone ==
    /\ roundIndex >= 0
    /\ setIndex >= 0
    /\ (ScoredALine /\ roundIndex < roundBefore) =>
        /\ LastLabel # <<>>
        /\ LastLabel[1].type = "set"

\* C8, amended: roundIndex and setIndex are never negative; a line without a
\* label never lowers roundIndex; a line with a "Set N" label sets setIndex
\* to N and restarts roundIndex at 0, so that it is 0 or 1 after the line; a
\* line with a "Round N" label sets roundIndex to N, lower than before or
\* not, so that it is N or N + 1 after the line.
C8_MonotoneBetweenLabels ==
    /\ roundIndex >= 0
    /\ setIndex >= 0
    /\ ScoredALine =>
        IF LastLabel = <<>> THEN roundIndex >= roundBefore
        ELSE IF LastLabel[1].type = "set"
        THEN /\ setIndex = parseInt(LastLabel[1].num)
             /\ roundIndex \in {0, 1}
        ELSE roundIndex \in {parseInt(LastLabel[1].num),
                             parseInt(LastLabel[1].num) + 1}

\* a "Round N" label has lowered roundIndex
C8_RoundLabelLowers ==
    /\ ScoredALine
    /\ LastLabel # <<>>
    /\ LastLabel[1].type = "round"
    /\ roundIndex < roundBefore

\* C9: output completeness. The title returned is never empty, also when the
\* title line is missing or shorter than 2 characters, and the confidence is
\* a number from 0 to 1 (0 to Unit in millionths); the lists may be empty.
C9_Complete ==
    pc = "done" =>
        /\ result[1].title # ""
        /\ trim(result[1].title) # ""
        /\ result[1].confidence \in 0..Unit

\* a call has returned on an input whose title line is missing or too short,
\* with both lists empty
C9_ShortTitleReturned ==
    /\ pc = "done"
    /\ (grid = <<>> \/ Len(JoinedColumns(grid[1])) < 2)
    /\ result[1].workout = <<>>
    /\ result[1].score = <<>>

\* s is normalized: no pipe at either end, no two pipes in a row, one space
\* on each side of every pipe and no other run of spaces, no space at either
\* end
IsNormalized(s) ==
    /\ s # "" => Ch(s, 1) \notin {"|", " ", "\t"}
    /\ s # "" => Ch(s, Len(s)) \notin {"|", " ", "\t"}
    /\ \A k \in 1..Len(s) : Ch(s, k) # "\t"
    /\ \A k \in 1..(Len(s) - 1) : ~(Ch(s, k) = " " /\ Ch(s, k + 1) = " ")
    /\ \A k \in 2..(Len(s) - 1) :
           Ch(s, k) = "|" =>
               /\ Ch(s, k - 1) = " " /\ Ch(s, k + 1) = " "
               /\ k + 2 <= Len(s) /\ Ch(s, k + 2) # "|"

\* C10: normalizer idempotence. The output of cleanGeminiPipeOutput is
\* normalized, and cleanGeminiPipeOutput applied to its own output returns
\* that output unchanged.
C10_Idempotent ==
    /\ pc \in {"cleaned", "recleaned"} =>
        \A k \in 1..Len(cleaned) : IsNormalized(cleaned[k])
    /\ pc = "recleaned" => recleaned = cleaned

\* the normalizer has been applied twice to a line it had to change, with a
\* pipe left in its output
C10_RenormalizedChanged ==
    /\ pc = "recleaned"
    /\ cleaned # rawLines
    /\ includes(cleaned[1], "|")

\* C11: no state shared across invocations. roundIndex and setIndex are 0
\* when a call enters the loop of parseScores, whatever the caller's earlier
\* calls and the other callers' calls left; and every call that has
\* returned, however its steps were interleaved with the steps of the other
\* callers' calls and whichever calls ran before it, has returned exactly
\* what parseWorkoutFromRawText gives for its input lines alone.
C11_NoSharedState ==
    pc = "calls" =>
        \A c \in Callers :
            /\ (calls[c].pc = "scores" /\ calls[c].i = 2) =>
                   calls[c].roundIndex = 0 /\ calls[c].setIndex = 0
            /\ calls[c].pc = "done" =>
                   calls[c].result
                       = <<parseWorkoutFromRawText(calls[c].input)>>

\* two calls on different inputs have returned after steps of each were
\* taken while the other was running, one of them the second call of its
\* caller
C11_InterleavedCallsReturned ==
    /\ pc = "calls"
    /\ \A c \in Callers : calls[c].pc = "done" /\ calls[c].overlapped
    /\ calls[1].input # calls[2].input
    /\ \E c \in Callers : calls[c].started = 2
    /\ \E c \in Callers : Len(calls[c].result[1].score) >= 2

RECURSIVE Letters(_)
Letters(s) ==
    IF s = "" THEN ""
    ELSE IF Head(s) \in {" ", "\t", "|"} THEN Letters(Tail(s))
    ELSE SubSeq(s, 1, 1) \o Letters(Tail(s))

\* the lines that are neither blank nor made of pipes only, in order
ContentLines(lines) == SelectSeq(lines, LAMBDA l : Letters(l) # "")

SkipRules ==
    {"skipEmpty", "skipHeader", "skipDescriptive", "skipAt", "skipMovement"}

\* C14: counter stepping. One iteration of the loop of parseScores pushes at
\* most one score. With the counters taken after the round/set label of the
\* line, if it has one and is not skipped, and as they were before the line
\* otherwise: a line that pushes a time or reps score leaves roundIndex
\* greater by exactly 1 and setIndex as it is; a line that pushes a weight
\* score, a skipped line and a line no rule matches leave both as they are.
\* Only a label assigns a counter: "Set N" sets setIndex to N and
\* roundIndex to 0, "Round N" sets roundIndex to N.
C14_CounterStepping ==
    [][MoreScoreLines /\ i' = i + 1 =>
        LET label == roundLabelMatch(JoinedColumns(grid[i]))
            applied == label # <<>> /\ lastRule' \notin SkipRules
            emitted == SubSeq(scores', Len(scores) + 1, Len(scores'))
            baseRound == IF ~applied THEN roundIndex
                         ELSE IF label[1].type = "set" THEN 0
                         ELSE parseInt(label[1].num)
            baseSet == IF applied /\ label[1].type = "set"
                       THEN parseInt(label[1].num)
                       ELSE setIndex
        IN  /\ Len(emitted) <= 1
            /\ SubSeq(scores', 1, Len(scores)) = scores
            /\ setIndex' = baseSet
            /\ roundIndex' = baseRound
                   + (IF emitted # <<>> /\ emitted[1].type \in {"time", "reps"}
                      THEN 1 ELSE 0)
            /\ emitted # <<>> => emitted[1].type \in {"time", "reps", "weight"}
    ]_vars

\* a weight score has just been pushed, after a line that stepped roundIndex,
\* and has left the counters as they were
C14_WeightLeftCounters ==
    /\ ScoredALine
    /\ lastRule = "gridWeight"
    /\ scores[Len(scores)].type = "weight"
    /\ roundIndex = roundBefore
    /\ roundIndex >= 1

\* C15: set/round label step. On a line of parseScores that starts with a
\* "Set N" label, setIndex becomes N and roundIndex restarts at 0; on a line
\* that starts with a "Round N" label, roundIndex becomes N and setIndex
\* stays as it is; the score that follows the label on the same line, if it
\* is a time or reps score, then steps roundIndex by 1. A label with nothing
\* after it pushes no score and still updates the counters.
C15_LabelStep ==
    [][(MoreScoreLines /\ i' = i + 1
            /\ roundLabelMatch(JoinedColumns(grid[i])) # <<>>) =>
        LET label == roundLabelMatch(JoinedColumns(grid[i]))[1]
            n == parseInt(label.num)
            emitted == SubSeq(scores', Len(scores) + 1, Len(scores'))
            step == IF emitted # <<>> /\ emitted[1].type \in {"time", "reps"}
                    THEN 1 ELSE 0
        IN  /\ label.type = "set" =>
                   setIndex' = n /\ roundIndex' = 0 + step
            /\ label.type = "round" =>
                   roundIndex' = n + step /\ setIndex' = setIndex
            /\ trim(label.rest) = "" =>
                   /\ scores' = scores
                   /\ lastRule' = "labelOnly"
                   /\ roundIndex' = IF label.type = "set" THEN 0 ELSE n
    ]_vars

\* a line that is the label "Set 2" alone has been handled after a line that
\* stepped roundIndex
C15_SetLabelAlone ==
    /\ ScoredALine
    /\ LastLabel # <<>>
    /\ LastLabel[1].type = "set"
    /\ trim(LastLabel[1].rest) = ""
    /\ roundBefore >= 1
    /\ roundIndex = 0
    /\ setIndex = 2
    /\ scoreLine # <<>>
    /\ scoreLine[Len(scoreLine)] < i - 1

\* C16: grid time naming, as claimed: the time score that the grid time rule
\* pushes is named "Set N" when setIndex > 0; otherwise "Finish Time" when it
\* is the first time score of the parse, and "Round (roundIndex + 1)", with
\* roundIndex as it is when the score is pushed, when it is not.
C16_GridTimeNaming ==
    (ScoredALine /\ lastRule = "gridTime") =>
        scores[Len(scores)].name
            = IF setIndex > 0 THEN SetName(setIndex)
              ELSE IF TimeScores(scores) = {Len(scores)} THEN "Finish Time"
              ELSE RoundName(roundIndex)

\* the scores of the grid with a time cap (the one of the title, or one
\* minute when the title has none), and without a time cap
ScoresCapped ==
    IF titleData.timeCap # Null THEN scores ELSE parseScores(grid, 60)

ScoresUncapped ==
    IF titleData.timeCap = Null THEN scores ELSE parseScores(grid, Null)

\* C17: the time cap affects naming only. The score list that parseScores
\* returns for a grid with a time cap and the one it returns for the same
\* grid without a time cap have the same length, and their entries agree one
\* by one in type, value and metadata; where the names differ, the score is
\* a reps score named "Time Cap" with the cap and "Total" or "Round N"
\* without it.
C17_TimeCapNamingOnly ==
    pc = "finish" =>
        /\ Len(ScoresCapped) = Len(ScoresUncapped)
        /\ \A k \in 1..Len(ScoresCapped) :
               /\ ScoresCapped[k].type = ScoresUncapped[k].type
               /\ ScoresCapped[k].value = ScoresUncapped[k].value
               /\ ScoresCapped[k].metadata = ScoresUncapped[k].metadata
               /\ ScoresCapped[k].name # ScoresUncapped[k].name =>
                      /\ ScoresCapped[k].name = "Time Cap"
                      /\ ScoresCapped[k].type = "reps"
                      /\ \/ ScoresUncapped[k].name = "Total"
                         \/ startsWith(ScoresUncapped[k].name, "Round ")

\* parseScores has returned, for a title with a time cap, a list with a
\* score named "Time Cap" that has another name without the cap, and a
\* second score
C17_TimeCapNamed ==
    /\ pc = "finish"
    /\ titleData.timeCap # Null
    /\ Len(scores) = 2
    /\ \E k \in 1..Len(scores) :
           scores[k].name = "Time Cap" /\ ScoresUncapped[k].name = "Round 1"

\* the line parseScores handled last
LastLine == grid[i - 1]

\* the columns of a line are [rounds, "+", repsIntoNext], with or without a
\* date in a fourth column
IsRoundsPlusReps(line) ==
    /\ \/ Len(line) = 3
       \/ Len(line) = 4 /\ IsDateOnly(line[4])
    /\ AllDigits(line[1])
    /\ line[2] = "+"
    /\ AllDigits(line[3])

\* C18: grid rounds + reps, as claimed: a line after the title whose columns
\* are [rounds, "+", repsIntoNext], with or without a date in a fourth
\* column, gives exactly one score, a reps score with metadata rounds,
\* repsIntoNextRound and totalReps = rounds + repsIntoNext, named "Set N"
\* when setIndex > 0, else "Total" when roundIndex = 0, else
\* "Round roundIndex".
C18_GridRoundsReps ==
    (ScoredALine /\ IsRoundsPlusReps(LastLine)) =>
        /\ scoreLine # <<>>
        /\ scoreLine[Len(scoreLine)] = i - 1
        /\ Cardinality({k \in 1..Len(scoreLine) : scoreLine[k] = i - 1}) = 1
        /\ LET s == scores[Len(scores)]
           IN  /\ s.type = "reps"
               /\ s.metadata = [rounds |-> parseInt(LastLine[1]),
                                repsIntoNextRound |-> parseInt(LastLine[3]),
                                totalReps |-> parseInt(LastLine[1])
                                                  + parseInt(LastLine[3])]
               /\ s.name = IF setIndex > 0 THEN SetName(setIndex)
                           ELSE IF roundBefore = 0 THEN "Total"
                           ELSE RoundName(roundBefore)

\* C19: grid weight, as claimed: a line after the title with exactly two
\* columns, a number greater than 50 in column 0 and a unit token in column
\* 1, gives a weight score whose metadata holds that number as weight and
\* column 1 as unit, and gives no time or reps score.
C19_GridWeight ==
    (/\ ScoredALine
     /\ Len(LastLine) = 2
     /\ AllDigits(LastLine[1])
     /\ parseInt(LastLine[1]) > 50
     /\ LastLine[2] \in {"lbs", "kg"}) =>
        /\ scoreLine # <<>>
        /\ scoreLine[Len(scoreLine)] = i - 1
        /\ scores[Len(scores)].type = "weight"
        /\ scores[Len(scores)].metadata
               = [weight |-> parseInt(LastLine[1]), unit |-> LastLine[2]]

\* the pass skips the line: a header, a score-shaped line or a bare MM:SS
SkippedLine(gridLine) ==
    \/ IsMovementHeader(getGridColumn(gridLine, 0))
    \/ IsScoreShaped(gridLine, JoinedColumns(gridLine))
    \/ Len(gridLine) = 1 /\ IsTimeOnly(getGridColumn(gridLine, 0))

\* no rule of the pass matches the line
UnmatchedLine(gridLine) ==
    /\ ~SkippedLine(gridLine)
    /\ DescriptiveKeyword(JoinedColumns(gridLine)) = ""
    /\ ~IsAtLine(getGridColumn(gridLine, 0), JoinedColumns(gridLine))
    /\ GridMovement(gridLine) = <<>>
    /\ LegacyMovement(JoinedColumns(gridLine)) = <<>>
    /\ Len(JoinedColumns(gridLine)) <= 3

\* C20: movement pass, first match wins: parseMovements never reads the
\* title line, emits at most one element per line after the title, emits
\* the elements in the order of their lines, and emits nothing for a line
\* no rule matches; a line skipped as a header, as score-shaped or as a bare
\* MM:SS never gives an element from a later rule.
C20_FirstMatchWins ==
    pc = "movements" =>
        /\ Len(elements) = Len(elemLine)
        /\ \A k \in 1..Len(elemLine) :
               /\ elemLine[k] \in 2..Len(grid)
               /\ elemLine[k] < i
               /\ <<elements[k]>> = MovementLine(grid[elemLine[k]])
        /\ \A k \in 1..(Len(elemLine) - 1) : elemLine[k] < elemLine[k + 1]
        /\ \A n \in 2..(i - 1) :
               SkippedLine(grid[n]) \/ UnmatchedLine(grid[n])
                   => n \notin ElementLines

\* the pass is over a grid of a title and three lines: the second and the
\* fourth line gave an element each, the skipped third line none
C20_SkippedBetweenElements ==
    /\ MovementsDone
    /\ Len(grid) = 4
    /\ SkippedLine(grid[3])
    /\ ElementLines = {2, 4}
    /\ Len(elements) = 2

\* the joined text of the line the k-th element came from
ElementText(k) == JoinedColumns(grid[elemLine[k]])

\* the k-th element came from the rest/repeat/then/and rule
FromRestRule(k) ==
    /\ elements[k].type = "descriptive"
    /\ DescriptiveKeyword(ElementText(k)) # ""

\* C21: descriptive duration, as claimed: the element of a rest, repeat,
\* then or and line has the duration 60 when the line is "Rest 1:1", and
\* otherwise MM*60+SS when an MM:SS is anywhere in the line.
C21_DescriptiveDuration ==
    pc = "movements" =>
        \A k \in 1..Len(elements) :
            FromRestRule(k) =>
                IF toLowerCase(ElementText(k)) = "rest 1:1"
                THEN elements[k].descriptive.duration = 60
                ELSE FirstPos(ElementText(k), ColonTimeAt) # 0
                         => elements[k].descriptive.duration
                                = AtElement(ElementText(k)).descriptive.duration

\* the letters a text begins with, in lower case: its first word, or the
\* start of its first column
RECURSIVE LeadingLetters(_)
LeadingLetters(s) ==
    IF s = "" \/ ~IsLetter(Ch(s, 1)) THEN ""
    ELSE toLowerCase(Ch(s, 1)) \o LeadingLetters(From(s, 2))

DescriptiveWords == {"rest", "repeat", "then", "and"}

\* the descriptive elements that came from the grid line n
DescriptiveAt(n) ==
    {k \in 1..Len(elements) :
        elemLine[k] = n /\ elements[k].type = "descriptive"}

\* C22: descriptive keyword match, as claimed: a line after the title gives
\* a descriptive element, and is skipped by the score pass as descriptive,
\* exactly when its first word is one of rest, repeat, then, and in any
\* case; the kind is rest, repeat or instruction by that word; a line whose
\* first word only begins with these letters gives no descriptive element.
C22_DescriptiveKeyword ==
    /\ pc = "movements" =>
           \A n \in 2..(i - 1) :
               /\ DescriptiveAt(n) # {}
                      <=> LeadingLetters(JoinedColumns(grid[n]))
                              \in DescriptiveWords
               /\ \A k \in DescriptiveAt(n) :
                      elements[k].descriptive.type
                          = DescriptiveType(
                                LeadingLetters(JoinedColumns(grid[n])))
    /\ ScoredALine =>
           (lastRule = "skipDescriptive"
                <=> LeadingLetters(JoinedColumns(LastLine))
                        \in DescriptiveWords)

\* the title holds one of the keywords of detectWorkoutType
HasTypeKeyword(title) ==
    \/ \E w \in {"amrap", "emom", "chipper", "for time", "for reps"} :
           includes(toLowerCase(title), w)
    \/ FirstPos(toLowerCase(title), ENMomAt) # 0

\* how many entries of a list have the given type
CountOfType(list, type) ==
    Cardinality({k \in 1..Len(list) : list[k].type = type})

\* the type the structure of a workout gives, as claimed
StructuralType(movements, scoreList) ==
    IF /\ CountOfType(movements, "movement") = 1
       /\ \E k \in 1..Len(movements) :
              /\ movements[k].type = "movement"
              /\ includes(movements[k].movement.amount, "x")
    THEN "Lift"
    ELSE IF CountOfType(scoreList, "time") = 1
            /\ CountOfType(scoreList, "reps") = 0
    THEN "For Time"
    ELSE IF CountOfType(scoreList, "reps") = 1
            /\ CountOfType(scoreList, "time") = 0
    THEN "For Reps"
    ELSE "Unknown"

\* the call has returned the extraction that the given type leads to
ReturnedWithType(type) ==
    /\ pc = "done"
    /\ result = <<Extraction(textLines, titleData.title, elements, scores,
                             type)>>

\* C23: type detection without a title keyword, as claimed: the type is Lift
\* for exactly one movement with an "x" in its amount, otherwise For Time
\* for exactly one time score and no reps score, whatever else is there,
\* otherwise For Reps for exactly one reps score and no time score,
\* otherwise Unknown.
C23_StructuralType ==
    pc = "done" /\ ~HasTypeKeyword(titleData.title)
        => ReturnedWithType(StructuralType(elements, scores))

\* the types of the title keywords, in the order the claim gives them
KeywordTypes ==
    <<"AMRAP", "EMOM", "Chipper", "Rounds for Time", "For Time", "For Reps">>

\* the title holds the n-th keyword, in any case
TitleHolds(title, n) ==
    IF n = 2
    THEN \/ FirstPos(toLowerCase(title), ENMomAt) # 0
         \/ includes(toLowerCase(title), "emom")
    ELSE includes(toLowerCase(title), toLowerCase(KeywordTypes[n]))

\* C24: type detection by title keyword: the keywords are looked for in any
\* case in the order amrap, E<N>MOM or emom, chipper, rounds for time, for
\* time, for reps, and the first one the title holds gives the type,
\* whatever the movements and the scores are.
C24_KeywordOrder ==
    pc = "done" =>
        \A n \in 1..Len(KeywordTypes) :
            /\ TitleHolds(titleData.title, n)
            /\ \A m \in 1..(n - 1) : ~TitleHolds(titleData.title, m)
            => ReturnedWithType(KeywordTypes[n])

\* a call returned AMRAP for a title that holds amrap and for time, with one
\* time score as the only score
C24_AmrapBeforeForTime ==
    /\ ReturnedWithType("AMRAP")
    /\ TitleHolds(titleData.title, 1)
    /\ TitleHolds(titleData.title, 5)
    /\ Len(scores) = 1
    /\ scores[1].type = "time"

\* the confidence as claimed, in millionths: the mean token confidence is
\* the confidence every token of a raw text is given
ClaimedConfidence(movements, scoreList) ==
    LET parsingSuccess == IF Len(movements) > 0 \/ Len(scoreList) > 0
                          THEN (9 * Unit) \div 10
                          ELSE (5 * Unit) \div 10
        completeness == (3 * Unit) \div 10
                        + (IF Len(movements) > 0 THEN (4 * Unit) \div 10
                           ELSE 0)
                        + (IF Len(scoreList) > 0 THEN (3 * Unit) \div 10
                           ELSE 0)
    IN  (4 * WordConfidence + 3 * parsingSuccess + 3 * completeness) \div 10

\* C25: confidence formula, as claimed: the confidence returned for a raw
\* text is 0.4 times the mean token confidence, 0.95, plus 0.3 times the
\* parsing success plus 0.3 times the completeness.
C25_ConfidenceFormula ==
    pc = "done" => result[1].confidence = ClaimedConfidence(elements, scores)

\* C26: time score range, as claimed: every time score of parseScores, from
\* whichever rule, has 0 <= timeInSeconds < 3600.
C26_TimeScoreRange ==
    \A k \in 1..Len(scores) :
        scores[k].type = "time"
            => /\ scores[k].metadata.timeInSeconds >= 0
               /\ scores[k].metadata.timeInSeconds < 3600

\* C27: entry-point equivalence: for every raw text, what
\* parseWorkoutFromRawText returns is what parseFromOCRData returns for the
\* OCRData that processExtractedText makes of the same text: the same
\* title, description, workout list, score list and confidence.
C27_EntryPointsAgree ==
    pc = "done" => result = <<parseFromOCRData(processExtractedText(rawLines))>>

\* a call on a title with a time cap returned a score named by the time
\* cap, and the other entry point gives the same extraction
C27_TimeCapBothWays ==
    /\ pc = "done"
    /\ titleData.timeCap # Null
    /\ \E k \in 1..Len(result[1].score) : result[1].score[k].name = "Time Cap"
    /\ result = <<parseFromOCRData(processExtractedText(rawLines))>>

\* C28: saved workout survives background sync, as claimed: a workout whose
\* saveWorkout has completed with success is in the workouts list of the
\* store and in the cache as long as deleteWorkout has not been called
\* for it, whatever loadWorkouts and its background syncFromDrive do.
C28_SavedWorkoutStays ==
    \A id \in history.saved \ history.deleted :
        id \in Ids(workouts) /\ id \in cacheDB

\* the extraction is over: it has returned or thrown
ApiDone == apiPc \in {"returned", "thrown"}

\* the messages that stand for a 503 and for a 404
OverloadedMessages == {"503 Service Unavailable", "The model is overloaded"}

NotFoundMessages == {"404 model is not found"}

\* the calls made to the model m
CallsTo(m) == {k \in 1..Len(apiLog) : apiLog[k][1] = m}

\* the calls so far follow the fallback rule
FallbackRule ==
    /\ \A m \in 1..MaxModels : Cardinality(CallsTo(m)) <= 3
    /\ \A k \in 1..(Len(apiLog) - 1) :
           \/ /\ apiLog[k + 1][1] = apiLog[k][1]
              /\ apiLog[k][2] \in OverloadedMessages
           \/ /\ apiLog[k + 1][1] = apiLog[k][1] + 1
              /\ apiLog[k][2] \in OverloadedMessages \cup NotFoundMessages
    /\ apiLog # <<>> => apiLog[1][1] = 1
    /\ apiPc = "returned"
           => /\ apiLog[Len(apiLog)][2] = "ok"
              /\ apiResult = <<"text", apiLog[Len(apiLog)][1]>>
    /\ apiPc = "thrown"
           => \/ /\ apiLog[Len(apiLog)][2] \in OverloadedMessages \cup NotFoundMessages \cup {"empty"}
                 /\ apiResult = <<"error", "No available Gemini model found">>
              \/ /\ apiLog[Len(apiLog)][2] \notin OverloadedMessages \cup NotFoundMessages \cup {"empty", "ok"}
                 /\ apiResult = <<"error", apiLog[Len(apiLog)][2]>>
    /\ apiPc \in {"call", "wait"} => apiResult = <<>>

RetryableErrors ==
    {e \in OpenAIErrors : e.status \in {429, 500} \/ e.message \in {"rate_limit_exceeded", "The engine is overloaded"}}

\* the calls so far follow the retry rule
RetryRule ==
    /\ Len(apiLog) <= 3
    /\ \A k \in 1..(Len(apiLog) - 1) : apiLog[k] \in RetryableErrors
    /\ apiPc = "call" => Len(apiLog) < 3 /\ apiResult = <<>>
    /\ apiPc = "wait"
           => /\ Len(apiLog) < 3
              /\ apiLog[Len(apiLog)] \in RetryableErrors
              /\ apiResult = <<>>
    /\ apiPc = "returned"
           => /\ apiLog[Len(apiLog)].message = "ok"
              /\ apiResult = <<"text">>
    /\ apiPc = "thrown"
           => /\ apiLog[Len(apiLog)].message # "ok"
              /\ apiLog[Len(apiLog)] \in RetryableErrors => Len(apiLog) = 3
              /\ apiResult = <<"error", apiLog[Len(apiLog)].message>>

\* C30: OpenAI retry bound: an extraction makes at most 3 calls, another
\* call only after a rate-limit or server error while attempts remain; any
\* other error, and the error of the third failed attempt, is thrown at
\* once; and the extraction always ends, returning the text or throwing.
C30_OpenAIRetryBound == []RetryRule /\ <>ApiDone

\* the third attempt failed with a server error and its error was thrown
C30_ThirdFailureThrown ==
    /\ apiPc = "thrown"
    /\ Len(apiLog) = 3
    /\ apiLog[3] \in RetryableErrors
    /\ modelIndex = 0

=============================================================================
